---------------------------- MODULE Spec2Model ----------------------------
(***************************************************************************)
(* The submit-and-poll protocol of inlyse.WebClient (src/src/inlyse/cli.py)*)
(* as a state machine: one client call at a time (get_analysis, scan_file, *)
(* scan_url, scan_owa, disarm, or an endpoint binding), the remote service *)
(* answering every request with an arbitrary status and content, and the   *)
(* transport adapter re-sending GET requests as its Retry policy says.     *)
(*                                                                         *)
(* Spec, SpecFair, SpecDefault and SpecWait follow one call; SpecSession   *)
(* follows the session of a client shared by threads (the property api,    *)
(* close, the with-block); SpecBatch follows the batch of the command-line *)
(* front end (src/src/inlyse/app.py: _scan and _api_wrapper); SpecMain     *)
(* puts the pre-flight check of main before that batch; SpecEndpoint       *)
(* follows one call of an endpoint binding from its arguments to the       *)
(* envelope, with the headers and the payload of the raw response;         *)
(* SpecBatchClient joins the batch with the session of its client, and     *)
(* SpecDisarm follows the command disarm to the files it writes.           *)
(*                                                                         *)
(* Durations are integers in units of 10 microseconds (1 s = 100000), so   *)
(* that base = 0.1 s, cap = 40 s and the 0.2 factor are exact.             *)
(***************************************************************************)
EXTENDS Integers, Sequences, FiniteSets, TLC

VARIABLES
    pc,                \* position of the running call: idle, check, wait, done
    op,                \* the client operation that was called
    arg_max_retries,   \* max_retries as given by the caller of the operation
    analysis_id,       \* get_analysis: parameter analysis_id
    estimated_time,    \* get_analysis: parameter estimated_time
    max_retries,       \* get_analysis: parameter max_retries
    retries,           \* get_analysis: local retries
    response,          \* the last InlyseResponse bound to `response`
    upload_response,   \* _upload: the InlyseResponse of the upload call
    log,               \* what the call did so far: requests sent and sleeps
    result,            \* the InlyseResponse returned to the caller
    error,             \* the exception raised to the caller
    env,               \* the run's environment: the service's bodies and 429/503 answers, draws of random()
    quota,             \* how many more times the service may answer 429 or 503
    wire,              \* every HTTP request sent, with the status it was answered with
    self_api,          \* WebClient._api: 0 for None, else the number of a session
    sessions,          \* the sessions created so far, each "open" or "closed"
    wpc,               \* each worker thread's position in its operation
    wlocal,            \* each worker thread's value of self.api
    wops,              \* how many operations each worker thread has started
    sent,              \* the requests the worker threads have sent, and through what
    opc,               \* the owner thread's position in close()
    block,             \* the owner's with-block: none, inside, exited
    exit_with,         \* __exit__: whether the block raised, the session held then, what propagated
    closes,            \* how many times close() was called directly
    assets,            \* _scan: the assets of the batch, a sequence
    outcomes,          \* what the client call for each asset ends with
    remaining,         \* _scan: parameter remaining
    bpc,               \* _scan: position of the main thread
    task_next,         \* the pool: the next asset to hand to a thread
    running,           \* the pool: the asset each thread is working on (0: none)
    results,           \* the pool: results completed and not yet yielded
    collected,         \* _scan: how many results the loop has taken
    scans,             \* _scan: the maps success and failures
    output,            \* _scan: what was printed or returned
    prompt,            \* _scan: the confirmation: unasked, confirmed, declined
    preflight,         \* main: what ping and stats answered, and the message printed
    disarmed,          \* disarm: the files written and the maps the command prints
    ep                 \* one call of an endpoint binding: arguments, request, raw response, envelope

pollvars == <<pc, op, arg_max_retries, analysis_id, estimated_time, max_retries,
              retries, response, upload_response, log, result, error>>

netvars == <<env, quota, wire>>

sessvars == <<self_api, sessions, wpc, wlocal, wops, sent, opc, block, exit_with,
              closes>>

batchvars == <<assets, outcomes, remaining, bpc, task_next, running, results,
               collected, scans, output, prompt, preflight, disarmed>>

epvars == <<ep>>

vars == <<pollvars, netvars, sessvars, batchvars, epvars>>

---------------------------------------------------------------------------
\* Bounds of the model.

\* Largest max_retries a caller passes.
MaxRetries == 3

\* random.uniform(0, b) is sampled at JitterSteps + 1 evenly spaced points.
JitterSteps == 1

\* Largest attempt number _wait is applied to in SpecWait.
MaxAttempt == 11

\* Largest number of 429 or 503 answers the service gives in one run.
MaxTransient == 4

\* Largest number of operations one worker thread starts.
MaxOps == 1

\* Largest number of direct calls of close().
MaxCloses == 1

\* Largest number of assets in a batch.
MaxAssets == 2

---------------------------------------------------------------------------
\* Program constants.

\* _wait: cap = 40 (seconds).
cap == 4000000

\* _wait: base = 0.1 (seconds).
base == 10000

\* WebClient.api: Retry(total=3, ...).
retry_total == 3

\* WebClient.api: Retry(status_forcelist=[429, 503], ...).
status_forcelist == {429, 503}

\* WebClient.api: Retry(allowed_methods=["GET"], ...).
allowed_methods == {"GET"}

---------------------------------------------------------------------------
\* Values the environment supplies.

Ids == {"X", "Y"}

\* EstimatedAnalysisTime / estimated_time values: 0 s, 5 s.
EstTimes == {0, 500000}

Bodies == {"b1", "b2"}

\* max_retries values a caller passes.
RetryArgs == (-1) .. MaxRetries

\* Status codes the service answers an upload with.
UploadStatuses == {199, 200, 299, 300, 404, 429, 503}

\* Status codes the service answers a check with.
CheckStatuses == {200, 201, 202, 404, 429, 503}

\* Status codes the service answers a disarm-file request with.
DisarmStatuses == {200, 201, 404, 429, 503}

\* Status codes the service answers a directly called endpoint with.
BindingStatuses == {200, 404, 429, 503}

\* The environments of a run: a service that never answers 429 or 503, with
\* every body and every draw of random(); and a service that answers 429 (or
\* 503) up to MaxTransient times, with one body and random() at its upper end.
Environments ==
    {[bodies |-> Bodies, rng |-> {JitterSteps}, transient |-> {}],
     [bodies |-> {"b1"}, rng |-> 0 .. JitterSteps, transient |-> {}],
     [bodies |-> {"b1"}, rng |-> {JitterSteps}, transient |-> {429}],
     [bodies |-> {"b1"}, rng |-> {JitterSteps}, transient |-> {503}]}

\* The threads of a pool that share one client.
Workers == {"w1", "w2"}

\* No __exit__ has been called.
NoExit == [raised |-> FALSE, held |-> 0, propagated |-> FALSE, api_at_return |-> 0]

\* _scan: scans = {"success": {}, "failures": {}}; a map is the set of its
\* entries.
EmptyScans == [success |-> {}, failures |-> {}]

\* Nothing printed, nothing returned.
NoOutput == [printed |-> FALSE, success |-> {}, failures |-> {}]

\* The names of the assets of a batch.
AssetNames == {"f1", "f2"}

\* How the client call for one asset ends: with a response, or with an
\* exception (of the client, of the transport, of opening the file).
Outcomes == {"response", "MaxRetriesExceeded", "ConnectionError", "FileNotFoundError"}

\* Values of the parameter remaining: none left, at and just under four
\* requests for one and for two assets, plenty.
Remainings == {0, 4, 7, 100}

\* A header the response does not carry.
Absent == "<absent>"

\* Values of the header x-ratelimit-remaining: integers, and text int() rejects.
RemainingHeaders == {Absent, "0", "14997", "many"}

\* Values of the header x-ratelimit-limit.
LimitHeaders == {Absent, "15000"}

\* Values of the header x-ratelimit-reset: in the format %d-%m-%Y %H:%M:%S,
\* and in another one.
ResetHeaders == {Absent, "20-03-2023 22:16:47", "2023-03-20 22:16:47"}

\* Values of the header content-type.
ContentTypeHeaders ==
    {Absent, "application/json", "application/json; charset=UTF-8", "Application/JSON",
     "application/pdf"}

\* Payloads: two JSON texts and one that is not JSON.
Payloads == {"{\"ID\": \"X\"}", "[\"X\", \"Y\"]", "%PDF-1.4"}

\* Status codes of a raw response.
RawStatuses == {200, 404, 429}

\* The raw responses of the transport.
RawResponses ==
    [status : RawStatuses, remaining : RemainingHeaders, limit : LimitHeaders,
     reset : ResetHeaders, content_type : ContentTypeHeaders, body : Payloads]

\* Values given as list filter: the four filters, spellings of them in other
\* letter case, and values that are no filter.
Filters == {"all", "finished", "unfinished", "error", "Finished", "ALL", "Error", "done", ""}

\* quota = None
NoQuota == [present |-> FALSE, limit |-> 0, remaining |-> 0, reset |-> ""]

\* No envelope.
NoEnvelope ==
    [endpoint |-> "", status |-> 0, rate_limit |-> NoQuota,
     content_type |-> [mime |-> "", params |-> ""],
     content |-> [type |-> "", of |-> ""]]

\* No binding was called.
NoCall ==
    [pc |-> "idle", via |-> "", binding |-> "", given |-> "", arg |-> "", path |-> "",
     params |-> "", raw |-> [status |-> 0, remaining |-> Absent, limit |-> Absent,
                             reset |-> Absent, content_type |-> Absent, body |-> ""],
     raised |-> "", envelope |-> NoEnvelope]

\* disarm: nothing written, nothing to print.
NoDisarmed == [files |-> {}, success |-> {}, failures |-> {}]

\* The files given to the command disarm: two of the same name in different
\* folders, and one of another name.
DisarmPaths == {"a/doc.pdf", "b/doc.pdf", "a/memo.pdf"}

\* main: no pre-flight check was made.
NoPreflight == [ping |-> "", ping_status |-> 0, stats |-> "", status |-> 0,
                rate_limit |-> -1, message |-> ""]

None == [endpoint |-> "", status |-> 0,
         content |-> [keys |-> {}, id |-> "", EstimatedAnalysisTime |-> 0, body |-> ""]]

NoError == [type |-> "", args |-> None.content, response |-> None]

\* A decoded JSON body; keys are the keys the object has.
Contents ==
    [keys : {{"id", "EstimatedAnalysisTime"}}, id : Ids,
     EstimatedAnalysisTime : EstTimes, body : {""}]
    \cup [keys : {{"id"}, {"EstimatedAnalysisTime"}}, id : {"X"},
          EstimatedAnalysisTime : {500000}, body : {""}]
    \cup [keys : {{}}, id : {""}, EstimatedAnalysisTime : {0}, body : Bodies]

CheckContents == [keys : {{}}, id : {""}, EstimatedAnalysisTime : {0}, body : env.bodies]

---------------------------------------------------------------------------
\* The response envelope and the exceptions.

\* endpoint(path): the envelope built from a raw response.  The endpoint field
\* is urljoin(self.url, path) with the declared path, as the decorator has it.
InlyseResponse(path, status, content) ==
    [endpoint |-> path, status |-> status, content |-> content]

\* Mutant: the positional arguments are dropped by the constructor.
InlyseApiError_drops_args(content) ==
    [type |-> "InlyseApiError", args |-> None.content, response |-> None]

\* InlyseApiError(*args, **kwargs): args are kept by the exception base class,
\* self.response is the keyword `response`, absent at every raise.
InlyseApiError(content) ==
    [type |-> "InlyseApiError", args |-> content, response |-> None]

RateLimitExceeded == [type |-> "RateLimitExceeded", args |-> None.content, response |-> None]

MaxRetriesExceeded == [type |-> "MaxRetriesExceeded", args |-> None.content, response |-> None]

KeyError == [type |-> "KeyError", args |-> None.content, response |-> None]

\* Entries of the wire.
Send(method, target, status) == [method |-> method, target |-> target, status |-> status]

\* Entries of the log.
Request(ev, id, resp) == [ev |-> ev, id |-> id, t |-> 0, resp |-> resp]
Sleep(t) == [ev |-> "sleep", id |-> "", t |-> t, resp |-> None]

Min(a, b) == IF a < b THEN a ELSE b


---------------------------------------------------------------------------
\* Pure parts of the code.

\* Mutant: the first check is made whatever the budget.
loop_guard_at_least_once(r, m) == r = 0 \/ r < m

\* Mutant: the loop gives up one attempt early.
loop_guard_one_short(r, m) == r < m - 1

\* Mutant: the loop allows one attempt too many.
loop_guard_one_more(r, m) == r <= m

\* get_analysis: the loop condition `retries < max_retries`.
loop_guard(r, m) == r < m

\* Mutant: the 429 branch is missing, 429 falls through to the error branch.
check_branch_without_429(status) ==
    CASE status = 200 -> "return"
      [] status = 202 -> "wait"
      [] OTHER -> "InlyseApiError"

\* get_analysis: the branch taken on response.status.
check_branch(status) ==
    CASE status = 200 -> "return"
      [] status = 202 -> "wait"
      [] status = 429 -> "RateLimitExceeded"
      [] OTHER -> "InlyseApiError"

\* Mutant: the 429 branch is missing, 429 falls through to the range test.
upload_branch_without_429(status) ==
    IF status > 299 \/ status < 200 THEN "InlyseApiError"
    ELSE "poll"

\* Mutant: the upper end of the accepted range is off by one.
upload_branch_299_rejected(status) ==
    IF status = 429 THEN "RateLimitExceeded"
    ELSE IF status >= 299 \/ status < 200 THEN "InlyseApiError"
    ELSE "poll"

\* _upload: the branch taken on response.status.
upload_branch(status) ==
    IF status = 429 THEN "RateLimitExceeded"
    ELSE IF status > 299 \/ status < 200 THEN "InlyseApiError"
    ELSE "poll"

\* Mutant: only 429 and the server errors are signalled.
disarm_branch_returns_below_500(status) ==
    IF status = 429 THEN "RateLimitExceeded"
    ELSE IF status < 500 THEN "return"
    ELSE "InlyseApiError"

\* Mutant: the 429 branch is missing, 429 falls through to the error branch.
disarm_branch_without_429(status) ==
    IF status = 200 THEN "return"
    ELSE "InlyseApiError"

\* Mutant: every 2xx status is accepted.
disarm_branch_accepts_2xx(status) ==
    IF status >= 200 /\ status <= 299 THEN "return"
    ELSE IF status = 429 THEN "RateLimitExceeded"
    ELSE "InlyseApiError"

\* disarm: the branch taken on response.status.
disarm_branch(status) ==
    IF status = 200 THEN "return"
    ELSE IF status = 429 THEN "RateLimitExceeded"
    ELSE "InlyseApiError"

\* Mutant: the 0.2 factor is forgotten.
upload_estimated_time_unscaled(content) == content.EstimatedAnalysisTime

\* _upload: estimated_time = response.content["EstimatedAnalysisTime"] * 0.2
upload_estimated_time(content) == (content.EstimatedAnalysisTime * 2) \div 10

\* _upload: the max_retries handed to get_analysis.
upload_max_retries(mr) == mr

\* Mutant: the path is sent without substituting the placeholder.
check_target_unformatted(id) == "{id}"

\* check: path.format(id=analysis_id), the identifier the request is made for.
check_target(id) == id

\* Mutant: the exponent is one too large.
backoff_bound_next_attempt(attempt) == Min(cap, base * 2^(attempt + 1))

\* _wait: min(cap, base * 2**attempt)
backoff_bound(attempt) == Min(cap, base * 2^attempt)

\* random.uniform(lo, hi): any value of [lo, hi], sampled.
uniform(lo, hi) == {lo + ((hi - lo) * i) \div JitterSteps : i \in env.rng}

\* Mutant: the courtesy wait is made on attempt 1 instead of attempt 0.
wait_sleeps_courtesy_on_1(attempt, avg_time, back_offtime) ==
    IF attempt = 1
    THEN <<Sleep(avg_time), Sleep(back_offtime)>>
    ELSE <<Sleep(back_offtime)>>

\* Mutant: no sleep after the first attempt.
wait_sleeps_first_only(attempt, avg_time, back_offtime) ==
    IF attempt = 0
    THEN <<Sleep(avg_time), Sleep(back_offtime)>>
    ELSE <<>>

\* _wait: the sleeps of one call, given the back_offtime drawn.
wait_sleeps(attempt, avg_time, back_offtime) ==
    IF attempt = 0
    THEN <<Sleep(avg_time), Sleep(back_offtime)>>
    ELSE <<Sleep(back_offtime)>>

\* Mutant: every call is made with attempt index 0.
wait_always_first_attempt(attempt, avg_time) ==
    {wait_sleeps(0, avg_time, b) : b \in uniform(0, backoff_bound(0))}

\* _wait(attempt, avg_time): the sleep sequences a call can perform.
wait(attempt, avg_time) ==
    {wait_sleeps(attempt, avg_time, b) : b \in uniform(0, backoff_bound(attempt))}

\* The number of 429 and 503 answers in a sequence of statuses.
Transients(run) == Cardinality({i \in 1 .. Len(run) : run[i] \in status_forcelist})

\* The statuses of S the service of this run answers with.
Answers(S) == {st \in S : st \in status_forcelist => st \in env.transient}

\* Mutant: one re-send fewer than Retry(total=3) allows.
retry_budget_one_less(method) ==
    IF method \in allowed_methods THEN retry_total - 1 ELSE 0

\* Mutant: requests of every method are sent again.
retry_budget_every_method(method) == retry_total

\* Mutant: one re-send more than Retry(total=3) allows.
retry_budget_one_more(method) ==
    IF method \in allowed_methods THEN retry_total + 1 ELSE 0

\* Retry(total=3, allowed_methods=["GET"]): how often a request of this
\* method may be sent again.
retry_budget(method) ==
    IF method \in allowed_methods THEN retry_total ELSE 0

\* TimeoutHTTPAdapter with max_retries=Retry(total=3, status_forcelist=[429,
\* 503], allowed_methods=["GET"], raise_on_status=False): the statuses one
\* logical request is answered with, send after send.  A request of an
\* allowed method answered with a status of the forcelist is sent again while
\* the budget lasts; the last answer is handed on as an ordinary response.
\* finals are the statuses the service may answer with, q its remaining quota
\* of 429 and 503 answers.
retry_runs(method, finals, q) ==
    LET budget == retry_budget(method)
        again == finals \cap status_forcelist
        resent == UNION {[1 .. k -> again] : k \in 0 .. budget}
    IN  {run \in {pre \o <<f>> : pre \in resent, f \in finals} :
            /\ run[Len(run)] \in status_forcelist => Len(run) = budget + 1
            /\ Transients(run) <= q}

\* The sends of one logical request, as entries of the wire.
Sends(method, target, run) == [i \in 1 .. Len(run) |-> Send(method, target, run[i])]

---------------------------------------------------------------------------
\* Steps of the calls.

\* WebClient.__init__: self._api = None; no thread has touched the client.
Unopened ==
    /\ self_api = 0
    /\ sessions = <<>>
    /\ wpc = [w \in Workers |-> "idle"]
    /\ wlocal = [w \in Workers |-> 0]
    /\ wops = [w \in Workers |-> 0]
    /\ sent = {}
    /\ opc = "idle"
    /\ block = "none"
    /\ exit_with = NoExit
    /\ closes = 0

\* No batch is run.
NoBatch ==
    /\ assets = <<>>
    /\ outcomes = <<>>
    /\ remaining = 0
    /\ bpc = "none"
    /\ task_next = 1
    /\ running = [w \in Workers |-> 0]
    /\ results = <<>>
    /\ collected = 0
    /\ scans = EmptyScans
    /\ output = NoOutput
    /\ prompt = "unasked"
    /\ preflight = NoPreflight
    /\ disarmed = NoDisarmed

\* `raise e` out of the running call.
Raise(e) ==
    /\ pc' = "done"
    /\ error' = e

\* get_analysis: the head of `while retries < max_retries`, and the raise
\* after the loop.
LoopHead(r, m) ==
    IF loop_guard(r, m)
    THEN pc' = "check" /\ error' = error
    ELSE Raise(MaxRetriesExceeded)

\* get_analysis(analysis_id, estimated_time, max_retries): entry up to the
\* first evaluation of the loop condition.
EnterGetAnalysis(id, est, mr) ==
    /\ analysis_id' = id
    /\ estimated_time' = est
    /\ max_retries' = mr
    /\ retries' = 0
    /\ LoopHead(0, mr)
    /\ UNCHANGED <<response, result>>

\* A direct call of get_analysis.
get_analysis ==
    /\ pc = "idle"
    /\ \E id \in Ids, est \in EstTimes, mr \in RetryArgs :
        /\ op' = "get_analysis"
        /\ arg_max_retries' = mr
        /\ EnterGetAnalysis(id, est, mr)
        /\ UNCHANGED <<upload_response, log, netvars, sessvars, batchvars, epvars>>

\* get_analysis: one check call and the branch on its status.
get_analysis_check ==
    /\ pc = "check"
    /\ \E run \in retry_runs("GET", Answers(CheckStatuses), quota), content \in CheckContents :
        LET status == run[Len(run)]
            r == InlyseResponse("/api/analysis/{id}", status, content)
            b == check_branch(status)
        IN  /\ wire' = wire \o Sends("GET", "/api/analysis/" \o check_target(analysis_id), run)
            /\ quota' = quota - Transients(run)
            /\ env' = env
            /\ log' = Append(log, Request("check", check_target(analysis_id), r))
            /\ response' = r
            /\ CASE b = "return" ->
                      pc' = "done" /\ result' = r /\ error' = error
                 [] b = "wait" ->
                      pc' = "wait" /\ UNCHANGED <<result, error>>
                 [] b = "RateLimitExceeded" ->
                      Raise(RateLimitExceeded) /\ result' = result
                 [] OTHER ->
                      Raise(InlyseApiError(r.content)) /\ result' = result
            /\ UNCHANGED <<op, arg_max_retries, analysis_id, estimated_time,
                           max_retries, retries, upload_response, sessvars,
                           batchvars, epvars>>

\* Mutant: the counter is not advanced after a wait.
next_retries_stuck(r) == r

\* get_analysis: retries += 1
next_retries(r) == r + 1

\* get_analysis: self._wait(retries, avg_time=estimated_time); retries += 1;
\* and the next evaluation of the loop condition.
get_analysis_wait ==
    /\ pc = "wait"
    /\ \E sleeps \in wait(retries, estimated_time) :
        /\ log' = log \o sleeps
        /\ retries' = next_retries(retries)
        /\ LoopHead(next_retries(retries), max_retries)
        /\ UNCHANGED <<op, arg_max_retries, analysis_id, estimated_time,
                       max_retries, response, upload_response, result, netvars,
                       sessvars, batchvars, epvars>>

\* The path declared for the upload method that _upload selects.
upload_path(upload_type) ==
    IF upload_type = "file" THEN "/api/files/" ELSE "/api/files/" \o upload_type

\* _upload(upload_type, max_retries, **kwargs)
upload(upload_type, mr) ==
    /\ pc = "idle"
    /\ \E run \in retry_runs("POST", Answers(UploadStatuses), quota), content \in Contents :
        LET status == run[Len(run)]
            r == InlyseResponse(upload_path(upload_type), status, content)
            b == upload_branch(status)
        IN  /\ wire' = wire \o Sends("POST", upload_path(upload_type), run)
            /\ quota' = quota - Transients(run)
            /\ env' = env
            /\ op' = "scan_" \o upload_type
            /\ arg_max_retries' = mr
            /\ upload_response' = r
            /\ log' = <<Request("upload_" \o upload_type, "", r)>>
            /\ IF b = "RateLimitExceeded" THEN
                   /\ Raise(RateLimitExceeded)
                   /\ UNCHANGED <<analysis_id, estimated_time, max_retries,
                                  retries, response, result>>
               ELSE IF b = "InlyseApiError" THEN
                   /\ Raise(InlyseApiError(r.content))
                   /\ UNCHANGED <<analysis_id, estimated_time, max_retries,
                                  retries, response, result>>
               ELSE IF ~({"EstimatedAnalysisTime", "id"} \subseteq content.keys) THEN
                   /\ Raise(KeyError)
                   /\ UNCHANGED <<analysis_id, estimated_time, max_retries,
                                  retries, response, result>>
               ELSE EnterGetAnalysis(content.id, upload_estimated_time(content),
                                     upload_max_retries(mr))
            /\ UNCHANGED <<sessvars, batchvars, epvars>>

\* The methods declared with @endpoint(path): name, HTTP method, and the
\* declared path split around its {id} placeholder.
Bindings ==
    {[name |-> "version", method |-> "GET", pre |-> "/version", has_id |-> FALSE, post |-> ""],
     [name |-> "ping", method |-> "GET", pre |-> "/ping", has_id |-> FALSE, post |-> ""],
     [name |-> "stats", method |-> "GET", pre |-> "/api/stats", has_id |-> FALSE, post |-> ""],
     [name |-> "download", method |-> "GET", pre |-> "/api/analysis/", has_id |-> TRUE, post |-> "/download"],
     [name |-> "disarm_analysis", method |-> "GET", pre |-> "/api/analysis/", has_id |-> TRUE, post |-> "/disarm"],
     [name |-> "upload_file", method |-> "POST", pre |-> "/api/files/", has_id |-> FALSE, post |-> ""],
     [name |-> "upload_url", method |-> "POST", pre |-> "/api/files/url", has_id |-> FALSE, post |-> ""],
     [name |-> "upload_owa", method |-> "POST", pre |-> "/api/files/owa", has_id |-> FALSE, post |-> ""],
     [name |-> "disarm_file", method |-> "POST", pre |-> "/api/files/disarm", has_id |-> FALSE, post |-> ""],
     [name |-> "list_analyses", method |-> "GET", pre |-> "/api/analysis", has_id |-> FALSE, post |-> ""],
     [name |-> "check", method |-> "GET", pre |-> "/api/analysis/", has_id |-> TRUE, post |-> ""]}

\* The path as written in the decorator, placeholder not filled in.
declared_path(b) == b.pre \o (IF b.has_id THEN "{id}" ELSE "") \o b.post

\* path.format(id=...): the path the request is sent to.
request_path(b, id) == b.pre \o (IF b.has_id THEN id ELSE "") \o b.post

\* A direct call of a method declared with @endpoint: the request is sent and
\* the wrapper returns the envelope of the response, whatever its status.
endpoint_call ==
    /\ pc = "idle"
    /\ \E b \in Bindings, id \in Ids, content \in CheckContents :
      \E run \in retry_runs(b.method, Answers(BindingStatuses), quota) :
        LET status == run[Len(run)]
            r == InlyseResponse(declared_path(b), status, content)
        IN  /\ op' = b.name
            /\ wire' = wire \o Sends(b.method, request_path(b, id), run)
            /\ quota' = quota - Transients(run)
            /\ log' = <<Request("binding", IF b.has_id THEN id ELSE "", r)>>
            /\ pc' = "done"
            /\ result' = r
            /\ UNCHANGED <<arg_max_retries, analysis_id, estimated_time, max_retries,
                           retries, response, upload_response, error, env, sessvars,
                           batchvars, epvars>>

\* disarm(filename, content)
disarm ==
    /\ pc = "idle"
    /\ \E run \in retry_runs("POST", Answers(DisarmStatuses), quota),
          content \in CheckContents :
        LET status == run[Len(run)]
            r == InlyseResponse("/api/files/disarm", status, content)
            b == disarm_branch(status)
        IN  /\ op' = "disarm"
            /\ wire' = wire \o Sends("POST", "/api/files/disarm", run)
            /\ quota' = quota - Transients(run)
            /\ log' = <<Request("disarm_file", "", r)>>
            /\ response' = r
            /\ CASE b = "return" ->
                      pc' = "done" /\ result' = r /\ error' = error
                 [] b = "RateLimitExceeded" ->
                      Raise(RateLimitExceeded) /\ result' = result
                 [] OTHER ->
                      Raise(InlyseApiError(r.content)) /\ result' = result
            /\ UNCHANGED <<arg_max_retries, analysis_id, estimated_time, max_retries,
                           retries, upload_response, env, sessvars, batchvars, epvars>>

scan_file == \E mr \in RetryArgs : upload("file", mr)

scan_url == \E mr \in RetryArgs : upload("url", mr)

scan_owa == \E mr \in RetryArgs : upload("owa", mr)

---------------------------------------------------------------------------
Init ==
    /\ pc = "idle"
    /\ op = ""
    /\ arg_max_retries = 0
    /\ analysis_id = ""
    /\ estimated_time = 0
    /\ max_retries = 0
    /\ retries = 0
    /\ response = None
    /\ upload_response = None
    /\ log = <<>>
    /\ result = None
    /\ error = NoError
    /\ env \in Environments
    /\ quota = MaxTransient
    /\ wire = <<>>
    /\ Unopened
    /\ ep = NoCall
    /\ NoBatch

Next ==
    \/ get_analysis
    \/ get_analysis_check
    \/ get_analysis_wait
    \/ scan_file
    \/ scan_url
    \/ scan_owa
    \/ disarm
    \/ endpoint_call

Spec == Init /\ [][Next]_vars

\* _wait applied to every attempt number: the poll loop taken up after a 202,
\* with `retries` attempts behind it; the log starts at this point.
InitWait ==
    /\ pc = "wait"
    /\ op = "get_analysis"
    /\ retries \in 0 .. MaxAttempt
    /\ max_retries \in {retries + 1, retries + 2}
    /\ arg_max_retries = max_retries
    /\ analysis_id \in Ids
    /\ estimated_time \in EstTimes
    /\ env = [bodies |-> Bodies, rng |-> 0 .. JitterSteps, transient |-> {}]
    /\ quota = MaxTransient
    /\ wire = <<>>
    /\ Unopened
    /\ ep = NoCall
    /\ NoBatch
    /\ response \in {InlyseResponse("/api/analysis/{id}", 202, c) : c \in CheckContents}
    /\ upload_response = None
    /\ log = <<>>
    /\ result = None
    /\ error = NoError

NextWait == get_analysis_wait

SpecWait == InitWait /\ [][NextWait]_vars

\* Every check call returns and every sleep ends: a call inside the poll loop
\* is not left waiting forever by its environment.
SpecFair ==
    /\ Init
    /\ [][Next]_vars
    /\ WF_vars(get_analysis_check)
    /\ WF_vars(get_analysis_wait)

\* Calls that leave estimated_time and max_retries to their defaults.

\* get_analysis(analysis_id, estimated_time=5.83675, ...), in units of 10 us.
default_estimated_time == 583675

\* Mutant: the scan operations default to one retry more.
default_max_retries_scan_one_more(operation) ==
    IF operation = "get_analysis" THEN 3 ELSE 16

\* The default of the max_retries parameter of each polling operation.
default_max_retries(operation) ==
    IF operation = "get_analysis" THEN 3 ELSE 15

get_analysis_default ==
    /\ pc = "idle"
    /\ \E id \in Ids :
        /\ op' = "get_analysis"
        /\ arg_max_retries' = default_max_retries("get_analysis")
        /\ EnterGetAnalysis(id, default_estimated_time,
                            default_max_retries("get_analysis"))
        /\ UNCHANGED <<upload_response, log, netvars, sessvars, batchvars, epvars>>

scan_file_default == upload("file", default_max_retries("scan_file"))

scan_url_default == upload("url", default_max_retries("scan_url"))

scan_owa_default == upload("owa", default_max_retries("scan_owa"))

\* A server that never answers a transient status, one body, one jitter
\* sample: the poll loop is followed to its full default depth.
InitDefault ==
    /\ pc = "idle"
    /\ op = ""
    /\ arg_max_retries = 0
    /\ analysis_id = ""
    /\ estimated_time = 0
    /\ max_retries = 0
    /\ retries = 0
    /\ response = None
    /\ upload_response = None
    /\ log = <<>>
    /\ result = None
    /\ error = NoError
    /\ env = [bodies |-> {"b1"}, rng |-> {JitterSteps}, transient |-> {}]
    /\ quota = MaxTransient
    /\ wire = <<>>
    /\ Unopened
    /\ ep = NoCall
    /\ NoBatch

NextDefault ==
    \/ get_analysis_default
    \/ scan_file_default
    \/ scan_url_default
    \/ scan_owa_default
    \/ get_analysis_check
    \/ get_analysis_wait

SpecDefault == InitDefault /\ [][NextDefault]_vars

---------------------------------------------------------------------------
\* The session of a client shared by threads: the worker threads of a pool run
\* operations, each reaching the session through the property `api`; the
\* owner thread enters and leaves a with-block and calls close().  Every read
\* and write of self._api is a step of its own: nothing in the client
\* synchronises the threads.

\* A worker thread starts an operation that sends one request.
operation(w) ==
    /\ wpc[w] = "idle"
    /\ wops[w] < MaxOps
    /\ wops' = [wops EXCEPT ![w] = @ + 1]
    /\ wpc' = [wpc EXCEPT ![w] = "api_test"]
    /\ UNCHANGED <<self_api, sessions, wlocal, sent, opc, block, exit_with, closes,
                   pollvars, netvars, batchvars, epvars>>

\* api: if not isinstance(self._api, sessions.BaseUrlSession)
api_test(w) ==
    /\ wpc[w] = "api_test"
    /\ wpc' = [wpc EXCEPT ![w] = IF self_api = 0 THEN "api_create" ELSE "api_return"]
    /\ UNCHANGED <<self_api, sessions, wlocal, wops, sent, opc, block, exit_with, closes,
                   pollvars, netvars, batchvars, epvars>>

\* api: session = sessions.BaseUrlSession(...); ...; self._api = session
api_create(w) ==
    /\ wpc[w] = "api_create"
    /\ sessions' = Append(sessions, "open")
    /\ self_api' = Len(sessions) + 1
    /\ wpc' = [wpc EXCEPT ![w] = "api_return"]
    /\ UNCHANGED <<wlocal, wops, sent, opc, block, exit_with, closes,
                   pollvars, netvars, batchvars, epvars>>

\* api: return self._api
api_return(w) ==
    /\ wpc[w] = "api_return"
    /\ wlocal' = [wlocal EXCEPT ![w] = self_api]
    /\ wpc' = [wpc EXCEPT ![w] = "send"]
    /\ UNCHANGED <<self_api, sessions, wops, sent, opc, block, exit_with, closes,
                   pollvars, netvars, batchvars, epvars>>

\* self.api.get(...) / self.api.post(...): the request goes through the
\* session the property returned; on None the call raises AttributeError.
send(w) ==
    /\ wpc[w] = "send"
    /\ sent' = sent \cup
                  {[worker |-> w,
                    session |-> wlocal[w],
                    closed |-> wlocal[w] # 0 /\ sessions[wlocal[w]] = "closed",
                    error |-> IF wlocal[w] = 0 THEN "AttributeError" ELSE ""]}
    /\ wpc' = [wpc EXCEPT ![w] = "idle"]
    /\ UNCHANGED <<self_api, sessions, wlocal, wops, opc, block, exit_with, closes,
                   pollvars, netvars, batchvars, epvars>>

\* with client: ... (__enter__ returns self)
with_enter ==
    /\ block = "none"
    /\ opc = "idle"
    /\ block' = "inside"
    /\ UNCHANGED <<self_api, sessions, wpc, wlocal, wops, sent, opc, exit_with, closes,
                   pollvars, netvars, batchvars, epvars>>

\* __exit__ returns None: an exception raised in the block is not suppressed.
exit_suppresses(raised) == FALSE

\* The block is left, normally or by an exception raised in it by the owner
\* thread: __exit__(type, value, traceback) calls self.close().
with_exit ==
    /\ block = "inside"
    /\ opc = "idle"
    /\ \E raised \in BOOLEAN :
          exit_with' = [raised |-> raised, held |-> self_api, propagated |-> FALSE,
                        api_at_return |-> 0]
    /\ block' = "exiting"
    /\ opc' = "close_test"
    /\ UNCHANGED <<self_api, sessions, wpc, wlocal, wops, sent, closes,
                   pollvars, netvars, batchvars, epvars>>

\* A direct call of close() by the owner thread.
close ==
    /\ opc = "idle"
    /\ closes < MaxCloses
    /\ closes' = closes + 1
    /\ opc' = "close_test"
    /\ UNCHANGED <<self_api, sessions, wpc, wlocal, wops, sent, block, exit_with,
                   pollvars, netvars, batchvars, epvars>>

\* close: if isinstance(self._api, sessions.BaseUrlSession)
close_test ==
    /\ opc = "close_test"
    /\ opc' = IF self_api # 0 THEN "close_session" ELSE "close_unset"
    /\ UNCHANGED <<self_api, sessions, wpc, wlocal, wops, sent, block, exit_with, closes,
                   pollvars, netvars, batchvars, epvars>>

\* close: self._api.close()
close_session ==
    /\ opc = "close_session"
    /\ sessions' = [sessions EXCEPT ![self_api] = "closed"]
    /\ opc' = "close_unset"
    /\ UNCHANGED <<self_api, wpc, wlocal, wops, sent, block, exit_with, closes,
                   pollvars, netvars, batchvars, epvars>>

\* close: self._api = None
api_after_close(a) == 0

\* close: self._api = None, and the return to the caller; out of __exit__
\* the exception of the block, if any, goes on to the caller of the block.
close_unset ==
    /\ opc = "close_unset"
    /\ self_api' = api_after_close(self_api)
    /\ opc' = "idle"
    /\ IF block = "exiting"
       THEN /\ block' = "exited"
            /\ exit_with' = [exit_with EXCEPT
                   !.propagated = exit_with.raised /\ ~exit_suppresses(exit_with.raised),
                   !.api_at_return = api_after_close(self_api)]
       ELSE UNCHANGED <<block, exit_with>>
    /\ UNCHANGED <<sessions, wpc, wlocal, wops, sent, closes,
                   pollvars, netvars, batchvars, epvars>>

\* The client after __init__, in the hands of its threads.
InitSession ==
    /\ pc = "idle"
    /\ op = ""
    /\ arg_max_retries = 0
    /\ analysis_id = ""
    /\ estimated_time = 0
    /\ max_retries = 0
    /\ retries = 0
    /\ response = None
    /\ upload_response = None
    /\ log = <<>>
    /\ result = None
    /\ error = NoError
    /\ env = [bodies |-> {"b1"}, rng |-> {JitterSteps}, transient |-> {}]
    /\ quota = MaxTransient
    /\ wire = <<>>
    /\ Unopened
    /\ ep = NoCall
    /\ NoBatch

NextSession ==
    \/ \E w \in Workers : operation(w)
    \/ \E w \in Workers : api_test(w)
    \/ \E w \in Workers : api_create(w)
    \/ \E w \in Workers : api_return(w)
    \/ \E w \in Workers : send(w)
    \/ with_enter
    \/ with_exit
    \/ close
    \/ close_test
    \/ close_session
    \/ close_unset

SpecSession == InitSession /\ [][NextSession]_vars

---------------------------------------------------------------------------
\* The batch of the command-line front end (src/src/inlyse/app.py): _scan maps
\* _api_wrapper over the assets with the threads of a pool and collects the
\* results in the order in which they complete.

\* Mutant: an entry is added and the one of the same key is kept.
Put_keeping_old(map, key, value) == map \cup {[key |-> key, value |-> value]}

\* dict[key] = value
Put(map, key, value) ==
    {e \in map : e.key # key} \cup {[key |-> key, value |-> value]}

\* Mutant: every result is filed under the same key.
api_wrapper_unkeyed(asset, outcome) ==
    IF outcome = "response"
    THEN [type |-> "ScanSuccess", asset |-> "asset", value |-> "content of " \o asset]
    ELSE [type |-> "ScanFailure", asset |-> "asset", value |-> outcome]

\* Mutant: the exception of the client call is not caught.
api_wrapper_uncaught(asset, outcome) ==
    IF outcome = "response"
    THEN [type |-> "ScanSuccess", asset |-> asset, value |-> "content of " \o asset]
    ELSE [type |-> "raise", asset |-> asset, value |-> outcome]

\* _api_wrapper(asset, method, client)
api_wrapper(asset, outcome) ==
    IF outcome = "response"
    THEN [type |-> "ScanSuccess", asset |-> asset, value |-> "content of " \o asset]
    ELSE [type |-> "ScanFailure", asset |-> asset, value |-> outcome]

\* Mutant: the confirmation is asked for at the threshold too.
needs_confirmation_inclusive(rem, n) == rem <= n * 4

\* Mutant: the confirmation counts one request per asset.
needs_confirmation_per_asset(rem, n) == rem < n

\* _scan: remaining < len(assets) * 4
needs_confirmation(rem, n) == rem < n * 4

\* _scan: the confirmation asked for when the remaining quota is short of
\* four requests per asset; declined, click.confirm(abort=True) raises Abort
\* before the pool and the client are created.
scan_confirm ==
    /\ bpc = "start"
    /\ IF needs_confirmation(remaining, Len(assets))
       THEN \E confirmed \in BOOLEAN :
                /\ prompt' = IF confirmed THEN "confirmed" ELSE "declined"
                /\ bpc' = IF confirmed THEN "collect" ELSE "aborted"
       ELSE /\ prompt' = prompt
            /\ bpc' = "collect"
    /\ UNCHANGED <<disarmed, preflight, assets, outcomes, remaining, task_next, running,
                   results, collected, scans, output, pollvars, netvars, sessvars, epvars>>

\* pool.imap_unordered: an idle thread is handed the next asset.
pool_take(w) ==
    /\ bpc = "collect"
    /\ running[w] = 0
    /\ task_next <= Len(assets)
    /\ running' = [running EXCEPT ![w] = task_next]
    /\ task_next' = task_next + 1
    /\ UNCHANGED <<disarmed, prompt, preflight, assets, outcomes, remaining, bpc, results, collected, scans,
                   output, pollvars, netvars, sessvars, epvars>>

\* A thread runs _api_wrapper on its asset and hands the result back.
pool_run(w) ==
    /\ running[w] # 0
    /\ results' = Append(results,
                         api_wrapper(assets[running[w]], outcomes[running[w]]))
    /\ running' = [running EXCEPT ![w] = 0]
    /\ UNCHANGED <<disarmed, prompt, preflight, assets, outcomes, remaining, bpc, task_next, collected, scans,
                   output, pollvars, netvars, sessvars, epvars>>

\* _scan: one turn of `for result in pool.imap_unordered(...)`; a result that
\* is an exception is raised out of the loop.
scan_collect ==
    /\ bpc = "collect"
    /\ results # <<>>
    /\ LET r == Head(results)
       IN  /\ results' = Tail(results)
           /\ collected' = collected + 1
           /\ CASE r.type = "ScanSuccess" ->
                     /\ scans' = [scans EXCEPT !.success = Put(@, r.asset, r.value)]
                     /\ bpc' = bpc
                [] r.type = "ScanFailure" ->
                     /\ scans' = [scans EXCEPT !.failures = Put(@, r.asset, r.value)]
                     /\ bpc' = bpc
                [] OTHER ->
                     /\ scans' = scans
                     /\ bpc' = "raised"
    /\ UNCHANGED <<disarmed, prompt, preflight, assets, outcomes, remaining, task_next, running, output,
                   pollvars, netvars, sessvars, epvars>>

\* _scan: the loop has taken a result for every asset; the maps are printed
\* (returned, for disarm_file).
scan_echo ==
    /\ bpc = "collect"
    /\ collected = Len(assets)
    /\ output' = [printed |-> TRUE, success |-> scans.success,
                  failures |-> scans.failures]
    /\ bpc' = "done"
    /\ UNCHANGED <<disarmed, prompt, preflight, assets, outcomes, remaining, task_next, running, results,
                   collected, scans, pollvars, netvars, sessvars, epvars>>

\* _scan(method, assets, ..., remaining) is called: any list of assets, any
\* outcome of the client call for each, any number of requests remaining that
\* main lets through.
InitBatch ==
    /\ pc = "idle"
    /\ op = ""
    /\ arg_max_retries = 0
    /\ analysis_id = ""
    /\ estimated_time = 0
    /\ max_retries = 0
    /\ retries = 0
    /\ response = None
    /\ upload_response = None
    /\ log = <<>>
    /\ result = None
    /\ error = NoError
    /\ env = [bodies |-> {"b1"}, rng |-> {JitterSteps}, transient |-> {}]
    /\ quota = MaxTransient
    /\ wire = <<>>
    /\ Unopened
    /\ ep = NoCall
    /\ assets \in UNION {[1 .. n -> AssetNames] : n \in 0 .. MaxAssets}
    /\ outcomes \in [1 .. Len(assets) -> Outcomes]
    /\ remaining \in Remainings \ {0}
    /\ bpc = "start"
    /\ task_next = 1
    /\ running = [w \in Workers |-> 0]
    /\ results = <<>>
    /\ collected = 0
    /\ scans = EmptyScans
    /\ output = NoOutput
    /\ prompt = "unasked"
    /\ preflight = NoPreflight
    /\ disarmed = NoDisarmed

NextBatch ==
    \/ scan_confirm
    \/ \E w \in Workers : pool_take(w)
    \/ \E w \in Workers : pool_run(w)
    \/ scan_collect
    \/ scan_echo

SpecBatch == InitBatch /\ [][NextBatch]_vars

---------------------------------------------------------------------------
\* The batch and the session of its client together: _scan enters the block
\* of the shared client, the threads of the pool reach the session through
\* the property api for every request of their calls, and the block is left
\* when the loop over the results is over.

\* How many requests the client call for one asset sends at most.
MaxRequests == 2

\* Mutant: the block of the client is left after the first result.
loop_over_after_first(n, total) == n >= 1 \/ total = 0

\* _scan: `for result in pool.imap_unordered(...)` has yielded a result for
\* every asset.
loop_over(n, total) == n = total

\* _scan: with inlyse.WebClient(...) as client
batch_enter ==
    /\ bpc = "collect"
    /\ block = "none"
    /\ block' = "inside"
    /\ UNCHANGED <<self_api, sessions, wpc, wlocal, wops, sent, opc, exit_with, closes,
                   pollvars, netvars, batchvars, epvars>>

\* pool.imap_unordered: an idle thread is handed the next asset and starts
\* _api_wrapper on it: the client call reaches for the session.
batch_take(w) ==
    /\ bpc = "collect"
    /\ block = "inside"
    /\ running[w] = 0
    /\ task_next <= Len(assets)
    /\ running' = [running EXCEPT ![w] = task_next]
    /\ task_next' = task_next + 1
    /\ wops' = [wops EXCEPT ![w] = 1]
    /\ wpc' = [wpc EXCEPT ![w] = "api_test"]
    /\ UNCHANGED <<disarmed, prompt, preflight, assets, outcomes, remaining, bpc, results,
                   collected, scans, output, self_api, sessions, wlocal, sent, opc,
                   block, exit_with, closes, pollvars, netvars, epvars>>

\* The client call sends another request (a check after the upload, the next
\* check of the poll loop).
batch_request(w) ==
    /\ running[w] # 0
    /\ wpc[w] = "idle"
    /\ wops[w] < MaxRequests
    /\ wops' = [wops EXCEPT ![w] = @ + 1]
    /\ wpc' = [wpc EXCEPT ![w] = "api_test"]
    /\ UNCHANGED <<self_api, sessions, wlocal, sent, opc, block, exit_with, closes,
                   pollvars, netvars, batchvars, epvars>>

\* The client call is over; _api_wrapper hands the result of the asset back.
batch_run(w) ==
    /\ running[w] # 0
    /\ wpc[w] = "idle"
    /\ results' = Append(results,
                         api_wrapper(assets[running[w]], outcomes[running[w]]))
    /\ running' = [running EXCEPT ![w] = 0]
    /\ UNCHANGED <<disarmed, prompt, preflight, assets, outcomes, remaining, bpc, task_next,
                   collected, scans, output, pollvars, netvars, sessvars, epvars>>

\* _scan: the loop is over and the block of the client is left: __exit__
\* calls close().
batch_exit ==
    /\ bpc = "collect"
    /\ block = "inside"
    /\ loop_over(collected, Len(assets))
    /\ bpc' = "closing"
    /\ block' = "exiting"
    /\ opc' = "close_test"
    /\ exit_with' = [raised |-> FALSE, held |-> self_api, propagated |-> FALSE,
                     api_at_return |-> 0]
    /\ UNCHANGED <<disarmed, prompt, preflight, assets, outcomes, remaining, task_next, running,
                   results, collected, scans, output, self_api, sessions, wpc, wlocal,
                   wops, sent, closes, pollvars, netvars, epvars>>

\* _scan: the blocks of the client and of the pool are left; the maps are
\* printed (returned, for disarm_file).
batch_echo ==
    /\ bpc = "closing"
    /\ block = "exited"
    /\ output' = [printed |-> TRUE, success |-> scans.success,
                  failures |-> scans.failures]
    /\ bpc' = "done"
    /\ UNCHANGED <<disarmed, prompt, preflight, assets, outcomes, remaining, task_next, running,
                   results, collected, scans, pollvars, netvars, sessvars, epvars>>

NextBatchClient ==
    \/ scan_confirm
    \/ batch_enter
    \/ \E w \in Workers : batch_take(w)
    \/ \E w \in Workers : api_test(w)
    \/ \E w \in Workers : api_create(w)
    \/ \E w \in Workers : api_return(w)
    \/ \E w \in Workers : send(w)
    \/ \E w \in Workers : batch_request(w)
    \/ \E w \in Workers : batch_run(w)
    \/ scan_collect
    \/ batch_exit
    \/ close_test
    \/ close_session
    \/ close_unset
    \/ batch_echo

\* _scan is called with plenty of requests remaining; the client call for an
\* asset returns a response or raises the exception of a lost connection.
InitBatchClient ==
    /\ InitBatch
    /\ remaining = 100
    /\ \A i \in 1 .. Len(assets) : outcomes[i] \in {"response", "ConnectionError"}

SpecBatchClient == InitBatchClient /\ [][NextBatchClient]_vars

---------------------------------------------------------------------------
\* The command disarm: the batch with method disarm_file, whose maps are
\* returned, and the loop that writes each disarmed document to the output
\* folder.

\* pathlib.Path(asset).stem: the last component of the path without its
\* suffix.
stem(asset) ==
    CASE asset \in {"a/doc.pdf", "b/doc.pdf"} -> "doc"
      [] asset = "a/memo.pdf" -> "memo"
      [] OTHER -> asset

\* disarm: os.path.join(output_folder, f"{pathlib.Path(asset).stem}.disarmed.pdf")
disarmed_file(output_folder, asset) ==
    output_folder \o "/" \o stem(asset) \o ".disarmed.pdf"

\* disarm: one turn of the loop over the entries of success: the result is
\* written to its destination, replacing what the file held, and the
\* destination is reported for the asset.
disarm_write ==
    /\ bpc = "done"
    /\ \E e \in output.success :
          /\ e.key \notin {d.key : d \in disarmed.success}
          /\ LET dst == disarmed_file("out", e.key)
             IN  disarmed' = [disarmed EXCEPT
                                 !.files = Put(@, dst, e.value),
                                 !.success = Put(@, e.key, dst)]
    /\ UNCHANGED <<prompt, preflight, assets, outcomes, remaining, bpc, task_next,
                   running, results, collected, scans, output, pollvars, netvars,
                   sessvars, epvars>>

\* disarm: the loops are over; the failures are reported as they came and
\* the maps are printed.
disarm_echo ==
    /\ bpc = "done"
    /\ {d.key : d \in disarmed.success} = {e.key : e \in output.success}
    /\ disarmed' = [disarmed EXCEPT !.failures = output.failures]
    /\ bpc' = "printed"
    /\ UNCHANGED <<prompt, preflight, assets, outcomes, remaining, task_next,
                   running, results, collected, scans, output, pollvars, netvars,
                   sessvars, epvars>>

\* `disarm -o out FILES` is called: any list of files, the call for each
\* returning the disarmed document or raising.
InitDisarm ==
    /\ pc = "idle"
    /\ op = ""
    /\ arg_max_retries = 0
    /\ analysis_id = ""
    /\ estimated_time = 0
    /\ max_retries = 0
    /\ retries = 0
    /\ response = None
    /\ upload_response = None
    /\ log = <<>>
    /\ result = None
    /\ error = NoError
    /\ env = [bodies |-> {"b1"}, rng |-> {JitterSteps}, transient |-> {}]
    /\ quota = MaxTransient
    /\ wire = <<>>
    /\ Unopened
    /\ ep = NoCall
    /\ assets \in UNION {[1 .. n -> DisarmPaths] : n \in 0 .. MaxAssets}
    /\ outcomes \in [1 .. Len(assets) -> {"response", "ConnectionError"}]
    /\ remaining = 100
    /\ bpc = "start"
    /\ task_next = 1
    /\ running = [w \in Workers |-> 0]
    /\ results = <<>>
    /\ collected = 0
    /\ scans = EmptyScans
    /\ output = NoOutput
    /\ prompt = "unasked"
    /\ preflight = NoPreflight
    /\ disarmed = NoDisarmed

NextDisarm ==
    \/ scan_confirm
    \/ \E w \in Workers : pool_take(w)
    \/ \E w \in Workers : pool_run(w)
    \/ scan_collect
    \/ scan_echo
    \/ disarm_write
    \/ disarm_echo

SpecDisarm == InitDisarm /\ [][NextDisarm]_vars

---------------------------------------------------------------------------
\* The pre-flight check of the command-line front end: main pings the API and
\* asks for the statistics of the license before any subcommand runs; the
\* subcommand that follows is a batch.

\* How a pre-flight call ends: with a response, or with an exception of the
\* transport (ConnectTimeout is a ConnectionError) or of the endpoint wrapper.
CallEnds == {"response", "ReadTimeout", "ConnectionError", "ConnectTimeout", "KeyError"}

\* The status codes ping answers with; main does not look at them.
PingStatuses == {200, 500}

\* The status codes stats answers with.
StatsStatuses == {200, 401, 429, 500}

\* The rate-limit snapshot of the stats envelope: -1 for None, else the
\* requests remaining.
RateLimits == {-1} \cup Remainings

\* main: the except clauses, in their order.
except_message(kind) ==
    CASE kind = "ReadTimeout" -> "Timeout"
      [] kind \in {"ConnectionError", "ConnectTimeout"} -> "Unreachable"
      [] OTHER -> "Exception not handled"

\* Mutant: a license with nothing remaining passes the pre-flight check.
stats_verdict_zero_passes(status, rl) ==
    IF status = 401 THEN "Unauthorized"
    ELSE IF status = 429 THEN IF rl = -1 THEN "Exception not handled"
                              ELSE "Rate-Limit Exceeded"
    ELSE IF rl = -1 THEN "Exception not handled"
    ELSE ""

\* Mutant: an unauthorized license passes the pre-flight check.
stats_verdict_ignores_401(status, rl) ==
    IF status = 429 THEN IF rl = -1 THEN "Exception not handled"
                         ELSE "Rate-Limit Exceeded"
    ELSE IF rl = -1 THEN "Exception not handled"
    ELSE IF rl = 0 THEN "Rate-Limit Exceeded"
    ELSE ""

\* main: what the stats envelope makes main print before sys.exit(1); "" when
\* the check passes. Subscripting the snapshot None raises TypeError, which
\* the last except clause handles.
stats_verdict(status, rl) ==
    IF status = 401 THEN "Unauthorized"
    ELSE IF status = 429 THEN IF rl = -1 THEN "Exception not handled"
                              ELSE "Rate-Limit Exceeded"
    ELSE IF rl = -1 THEN "Exception not handled"
    ELSE IF rl = 0 THEN "Rate-Limit Exceeded"
    ELSE ""

\* main: response = client.ping()
main_ping ==
    /\ bpc = "ping"
    /\ \E kind \in CallEnds, status \in PingStatuses :
          IF kind = "response"
          THEN /\ preflight' = [preflight EXCEPT !.ping = kind, !.ping_status = status]
               /\ bpc' = "stats"
          ELSE /\ preflight' = [preflight EXCEPT !.ping = kind,
                                                 !.message = except_message(kind)]
               /\ bpc' = "exit1"
    /\ UNCHANGED <<disarmed, prompt, assets, outcomes, remaining, task_next, running, results,
                   collected, scans, output, pollvars, netvars, sessvars, epvars>>

\* main: response = client.stats() and the tests on it; passed, the requests
\* remaining are handed to the subcommand.
main_stats ==
    /\ bpc = "stats"
    /\ \E kind \in CallEnds, status \in StatsStatuses, rl \in RateLimits :
          IF kind = "response"
          THEN LET message == stats_verdict(status, rl)
               IN  /\ preflight' = [preflight EXCEPT !.stats = kind, !.status = status,
                                                     !.rate_limit = rl,
                                                     !.message = message]
                   /\ bpc' = IF message = "" THEN "start" ELSE "exit1"
                   /\ remaining' = IF message = "" THEN rl ELSE remaining
          ELSE /\ preflight' = [preflight EXCEPT !.stats = kind,
                                                 !.message = except_message(kind)]
               /\ bpc' = "exit1"
               /\ remaining' = remaining
    /\ UNCHANGED <<disarmed, prompt, assets, outcomes, task_next, running, results,
                   collected, scans, output, pollvars, netvars, sessvars, epvars>>

\* The command line is given: any list of assets, any outcome of the client
\* call for each.
InitMain ==
    /\ pc = "idle"
    /\ op = ""
    /\ arg_max_retries = 0
    /\ analysis_id = ""
    /\ estimated_time = 0
    /\ max_retries = 0
    /\ retries = 0
    /\ response = None
    /\ upload_response = None
    /\ log = <<>>
    /\ result = None
    /\ error = NoError
    /\ env = [bodies |-> {"b1"}, rng |-> {JitterSteps}, transient |-> {}]
    /\ quota = MaxTransient
    /\ wire = <<>>
    /\ Unopened
    /\ ep = NoCall
    /\ assets \in UNION {[1 .. n -> AssetNames] : n \in 0 .. MaxAssets}
    /\ outcomes \in [1 .. Len(assets) -> Outcomes]
    /\ remaining = 0
    /\ bpc = "ping"
    /\ task_next = 1
    /\ running = [w \in Workers |-> 0]
    /\ results = <<>>
    /\ collected = 0
    /\ scans = EmptyScans
    /\ output = NoOutput
    /\ prompt = "unasked"
    /\ preflight = NoPreflight
    /\ disarmed = NoDisarmed

NextMain ==
    \/ main_ping
    \/ main_stats
    \/ scan_confirm
    \/ \E w \in Workers : pool_take(w)
    \/ \E w \in Workers : pool_run(w)
    \/ scan_collect
    \/ scan_echo

SpecMain == InitMain /\ [][NextMain]_vars

---------------------------------------------------------------------------
\* One call of a method declared with @endpoint, seen whole: the arguments,
\* the request the binding sends, the raw response with its headers and
\* payload, and what the wrapper makes of it.

\* int(text): the integer, or ValueError.
parse_int(text) ==
    CASE text = "0" -> [ok |-> TRUE, value |-> 0]
      [] text = "14997" -> [ok |-> TRUE, value |-> 14997]
      [] text = "15000" -> [ok |-> TRUE, value |-> 15000]
      [] OTHER -> [ok |-> FALSE, value |-> 0]

\* datetime.strptime(text, "%d-%m-%Y %H:%M:%S").replace(tzinfo=timezone.utc):
\* the timestamp, or ValueError.
strptime(text) ==
    CASE text = "20-03-2023 22:16:47" -> [ok |-> TRUE, value |-> "2023-03-20T22:16:47+00:00"]
      [] OTHER -> [ok |-> FALSE, value |-> ""]

\* _parse_content_type_header(header): the text before the first semicolon,
\* stripped, in the letter case it came in, and the parameters after it.
parse_content_type_header(header) ==
    CASE header = "application/json; charset=UTF-8" ->
             [mime |-> "application/json", params |-> "charset=UTF-8"]
      [] OTHER -> [mime |-> header, params |-> ""]

\* response.json(): the decoded value, or JSONDecodeError.
json(body) ==
    CASE body = "{\"ID\": \"X\"}" -> [ok |-> TRUE, value |-> [type |-> "dict", of |-> "ID=X"]]
      [] body = "[\"X\", \"Y\"]" -> [ok |-> TRUE, value |-> [type |-> "list", of |-> "X,Y"]]
      [] OTHER -> [ok |-> FALSE, value |-> [type |-> "", of |-> ""]]

\* response.content
bytes(body) == [type |-> "bytes", of |-> body]

\* str.lower()
lower(text) ==
    CASE text = "Finished" -> "finished"
      [] text = "ALL" -> "all"
      [] text = "Error" -> "error"
      [] OTHER -> text

\* Mutant: without the header the snapshot is one of zeros.
quota_snapshot_zero_default(raw) ==
    IF raw.remaining = Absent
    THEN [raised |-> "", value |-> [present |-> TRUE, limit |-> 0, remaining |-> 0, reset |-> ""]]
    ELSE IF raw.limit = Absent THEN [raised |-> "KeyError", value |-> NoQuota]
    ELSE IF ~parse_int(raw.limit).ok THEN [raised |-> "ValueError", value |-> NoQuota]
    ELSE IF ~parse_int(raw.remaining).ok THEN [raised |-> "ValueError", value |-> NoQuota]
    ELSE IF raw.reset = Absent THEN [raised |-> "KeyError", value |-> NoQuota]
    ELSE IF ~strptime(raw.reset).ok THEN [raised |-> "ValueError", value |-> NoQuota]
    ELSE [raised |-> "",
          value |-> [present |-> TRUE, limit |-> parse_int(raw.limit).value,
                     remaining |-> parse_int(raw.remaining).value,
                     reset |-> strptime(raw.reset).value]]

\* endpoint: the rate-limit snapshot, built when the response carries
\* x-ratelimit-remaining; the three headers are read in the order limit,
\* remaining, reset, and a missing or malformed one raises.
quota_snapshot(raw) ==
    IF raw.remaining = Absent THEN [raised |-> "", value |-> NoQuota]
    ELSE IF raw.limit = Absent THEN [raised |-> "KeyError", value |-> NoQuota]
    ELSE IF ~parse_int(raw.limit).ok THEN [raised |-> "ValueError", value |-> NoQuota]
    ELSE IF ~parse_int(raw.remaining).ok THEN [raised |-> "ValueError", value |-> NoQuota]
    ELSE IF raw.reset = Absent THEN [raised |-> "KeyError", value |-> NoQuota]
    ELSE IF ~strptime(raw.reset).ok THEN [raised |-> "ValueError", value |-> NoQuota]
    ELSE [raised |-> "",
          value |-> [present |-> TRUE, limit |-> parse_int(raw.limit).value,
                     remaining |-> parse_int(raw.remaining).value,
                     reset |-> strptime(raw.reset).value]]

\* Mutant: the payload is decoded whenever it is JSON, whatever its type.
envelope_content_decodes_any(raw) ==
    IF raw.content_type = Absent THEN [raised |-> "KeyError", value |-> NoEnvelope.content]
    ELSE IF json(raw.body).ok THEN [raised |-> "", value |-> json(raw.body).value]
    ELSE [raised |-> "", value |-> bytes(raw.body)]

\* endpoint: the content of the envelope: the decoded JSON when the type is
\* application/json, else the payload as it is.
envelope_content(raw) ==
    IF raw.content_type = Absent THEN [raised |-> "KeyError", value |-> NoEnvelope.content]
    ELSE IF parse_content_type_header(raw.content_type).mime = "application/json"
         THEN IF json(raw.body).ok
              THEN [raised |-> "", value |-> json(raw.body).value]
              ELSE [raised |-> "JSONDecodeError", value |-> NoEnvelope.content]
         ELSE [raised |-> "", value |-> bytes(raw.body)]

\* endpoint(path): the wrapper around a binding: the envelope of the raw
\* response, or the exception raised on the way to it.
endpoint(path, raw) ==
    LET quota_ == quota_snapshot(raw)
        content == envelope_content(raw)
    IN  IF quota_.raised # "" THEN [raised |-> quota_.raised, envelope |-> NoEnvelope]
        ELSE IF content.raised # "" THEN [raised |-> content.raised, envelope |-> NoEnvelope]
        ELSE [raised |-> "",
              envelope |-> [endpoint |-> path, status |-> raw.status,
                            rate_limit |-> quota_.value,
                            content_type |-> parse_content_type_header(raw.content_type),
                            content |-> content.value]]

\* The filters list_analyses knows.
ValidFilters == {"all", "finished", "unfinished", "error"}

\* Mutant: an unknown filter is sent as it is.
list_filter_unchecked(filter_) == filter_

\* list_analyses: the filter sent.
list_filter(filter_) == IF filter_ \notin ValidFilters THEN "all" ELSE filter_

\* The arguments a binding is called with: an identifier, a filter, none.
Args(b) ==
    IF b.has_id THEN Ids ELSE IF b.name = "list_analyses" THEN Filters ELSE {""}

\* The call of binding b with argument arg, answered with raw.
Called(via, b, given, arg, raw) ==
    LET out == endpoint(declared_path(b), raw)
    IN  [pc |-> IF out.raised = "" THEN "returned" ELSE "raised",
         via |-> via, binding |-> b.name, given |-> given, arg |-> arg,
         path |-> request_path(b, arg),
         params |-> IF b.name = "list_analyses" THEN "filter=" \o list_filter(arg) ELSE "",
         raw |-> raw, raised |-> out.raised, envelope |-> out.envelope]

\* A method declared with @endpoint is called.
binding_call ==
    /\ ep.pc = "idle"
    /\ \E b \in Bindings, raw \in RawResponses :
         \E arg \in Args(b) :
            ep' = Called("library", b, arg, arg, raw)
    /\ UNCHANGED <<pollvars, netvars, sessvars, batchvars>>

\* Mutant: the choice is compared as it is written.
choice_convert_case_sensitive(value) ==
    IF value \in ValidFilters THEN [ok |-> TRUE, value |-> value]
    ELSE [ok |-> FALSE, value |-> ""]

\* click.Choice(["all", "finished", "unfinished", "error"],
\* case_sensitive=False): the choice the value names, or a usage error.
choice_convert(value) ==
    IF lower(value) \in ValidFilters THEN [ok |-> TRUE, value |-> lower(value)]
    ELSE [ok |-> FALSE, value |-> ""]

\* The command `list --filter value` of the command line: the value is
\* checked against the choices and handed to list_analyses in lower case; the
\* content of the envelope is printed as JSON, and any exception (one of
\* json.dumps given bytes too) ends in sys.exit(1).
list_command ==
    /\ ep.pc = "idle"
    /\ \E given \in Filters, raw \in RawResponses :
         LET choice == choice_convert(given)
             b == CHOOSE x \in Bindings : x.name = "list_analyses"
         IN  IF choice.ok
             THEN LET c == Called("cli", b, given, lower(choice.value), raw)
                  IN  ep' = [c EXCEPT !.pc = IF c.raised = ""
                                                /\ c.envelope.content.type # "bytes"
                                             THEN "echoed" ELSE "exit1"]
             ELSE ep' = [NoCall EXCEPT !.pc = "usage", !.via = "cli", !.given = given]
    /\ UNCHANGED <<pollvars, netvars, sessvars, batchvars>>

\* Nothing was called yet.
InitEndpoint ==
    /\ pc = "idle"
    /\ op = ""
    /\ arg_max_retries = 0
    /\ analysis_id = ""
    /\ estimated_time = 0
    /\ max_retries = 0
    /\ retries = 0
    /\ response = None
    /\ upload_response = None
    /\ log = <<>>
    /\ result = None
    /\ error = NoError
    /\ env = [bodies |-> {"b1"}, rng |-> {JitterSteps}, transient |-> {}]
    /\ quota = MaxTransient
    /\ wire = <<>>
    /\ Unopened
    /\ ep = NoCall
    /\ NoBatch

NextEndpoint ==
    \/ binding_call
    \/ list_command

SpecEndpoint == InitEndpoint /\ [][NextEndpoint]_vars

---------------------------------------------------------------------------
\* Vocabulary of the properties.

ScanOps == {"scan_file", "scan_url", "scan_owa"}

\* The check calls made so far, in order.
Checks == SelectSeq(log, LAMBDA e : e.ev = "check")

\* The first n entries of the sequence of check calls c were answered 202.
AllPending(c, n) == \A i \in 1 .. n : c[i].resp.status = 202

\* Position in the log of the first check call (0 when there is none).
FirstCheck ==
    IF \E i \in 1 .. Len(log) : log[i].ev = "check"
    THEN CHOOSE i \in 1 .. Len(log) :
             /\ log[i].ev = "check"
             /\ \A j \in 1 .. (i - 1) : log[j].ev # "check"
    ELSE 0

\* The running call has entered get_analysis: directly, or through a scan
\* operation whose upload was answered 2xx with both keys in the body.
Polled ==
    /\ pc # "idle"
    /\ \/ op = "get_analysis"
       \/ /\ op \in ScanOps
          /\ upload_response.status >= 200
          /\ upload_response.status <= 299
          /\ {"id", "EstimatedAnalysisTime"} \subseteq upload_response.content.keys

\* C1: with max_retries >= 1 and k < max_retries, k answers 202 followed by
\* an answer 200 make get_analysis issue exactly k+1 checks: the budget does
\* not end the loop before check k+1, and the 200 ends the call at once,
\* without error, returning the envelope of that 200 response.
C1_Returns200Envelope ==
    LET c == Checks
        n == Len(c)
    IN  /\ (Polled /\ max_retries >= 1 /\ n < max_retries /\ AllPending(c, n))
               => (error = NoError /\ pc \in {"check", "wait"})
        /\ (Polled /\ max_retries >= 1 /\ n >= 1 /\ AllPending(c, n - 1)
                /\ c[n].resp.status = 200)
               => /\ n <= max_retries
                  /\ pc = "done"
                  /\ error = NoError
                  /\ result = c[n].resp
                  /\ log[Len(log)] = c[n]

C1_Witness ==
    /\ pc = "done"
    /\ max_retries = 3
    /\ Len(Checks) = 3
    /\ AllPending(Checks, 2)
    /\ result.status = 200
    /\ result = Checks[3].resp

\* C2: when every check answers 202, get_analysis ends with
\* MaxRetriesExceeded after exactly max_retries checks (max_retries being a
\* count, >= 0); no check numbered above max_retries is ever issued, and
\* MaxRetriesExceeded is raised for no other history.
C2_ExhaustedAfterMaxRetries ==
    LET c == Checks
        n == Len(c)
    IN  /\ \A i \in 1 .. n : i <= max_retries
        /\ (Polled /\ pc = "done" /\ AllPending(c, n))
               => /\ error = MaxRetriesExceeded
                  /\ max_retries >= 0 => n = max_retries
        /\ error.type = "MaxRetriesExceeded"
               => /\ AllPending(c, n)
                  /\ pc = "done"
                  /\ result = None

C2_Witness ==
    /\ pc = "done"
    /\ error = MaxRetriesExceeded
    /\ max_retries = 3
    /\ Len(Checks) = 3
    /\ AllPending(Checks, 3)

\* C3: a check answered 429 is the last thing the call does: the call ends
\* with RateLimitExceeded, no check and no sleep follow the response.
C3_RateLimitedAtOnce ==
    \A i \in 1 .. Len(log) :
        (log[i].ev = "check" /\ log[i].resp.status = 429)
            => /\ i = Len(log)
               /\ pc = "done"
               /\ error = RateLimitExceeded
               /\ result = None

C3_Witness ==
    /\ pc = "done"
    /\ error.type = "RateLimitExceeded"
    /\ max_retries = 3
    /\ Len(Checks) = 2
    /\ Checks[1].resp.status = 202
    /\ Checks[2].resp.status = 429

\* C4: a check answered with a status other than 200, 202, 429 is the last
\* thing the call does: the call ends with InlyseApiError carrying the
\* content of that very response, no check and no sleep follow it.
C4_ApiErrorAtOnce ==
    \A i \in 1 .. Len(log) :
        (log[i].ev = "check" /\ log[i].resp.status \notin {200, 202, 429})
            => /\ i = Len(log)
               /\ pc = "done"
               /\ error.type = "InlyseApiError"
               /\ error.args = log[i].resp.content
               /\ result = None

C4_Witness ==
    /\ pc = "done"
    /\ error.type = "InlyseApiError"
    /\ max_retries = 3
    /\ Len(Checks) = 2
    /\ Checks[1].resp.status = 202
    /\ Checks[1].resp.content.body = "b1"
    /\ Checks[2].resp.status = 404
    /\ error.args.body = "b2"

\* C5 as stated: the courtesy wait of the full estimated_time is slept
\* before the first check call is issued.
C5_CourtesyWaitBeforeFirstCheck ==
    (Polled /\ max_retries >= 1 /\ FirstCheck > 0)
        => \E j \in 1 .. (FirstCheck - 1) : log[j] = Sleep(estimated_time)

\* C5 amended: with max_retries >= 1 the first check call is issued before
\* any sleep; the courtesy wait of the full estimated_time is slept right
\* after the response of the first check when that response is 202 (before
\* the second check, if any), and not at all when it is anything else.
C5_CourtesyWaitAfterFirst202 ==
    LET f == FirstCheck
    IN  /\ \A i \in 1 .. Len(log) : log[i].ev = "sleep" => (f > 0 /\ f < i)
        /\ (Polled /\ max_retries >= 1) => (pc = "check" \/ f > 0)
        /\ (f > 0 /\ log[f].resp.status = 202)
               => /\ Len(log) = f => pc = "wait"
                  /\ Len(log) > f => log[f + 1] = Sleep(estimated_time)
                  /\ \A i \in (f + 2) .. Len(log) :
                         log[i].ev = "check" => log[i - 1].ev = "sleep"
        /\ (f > 0 /\ log[f].resp.status # 202) => Len(log) = f

C5_Witness ==
    /\ estimated_time = 500000
    /\ max_retries >= 2
    /\ Len(log) = 4
    /\ log[1].ev = "check"
    /\ log[1].resp.status = 202
    /\ log[2] = Sleep(500000)
    /\ log[3].ev = "sleep"
    /\ log[3].t = base
    /\ log[4].ev = "check"

\* The total time slept so far.
RECURSIVE SumSleep(_)
SumSleep(l) == IF l = <<>> THEN 0 ELSE Head(l).t + SumSleep(Tail(l))

\* C6: the back-off of attempt n lies in [0, min(40 s, 0.1 s * 2^n)], a bound
\* that does not decrease with n and is the cap 40 s from n = 9 on; the time
\* slept by _wait is estimated_time plus the back-off on attempt 0 and the
\* back-off alone on every later attempt.
C6_BackoffWithinBound ==
    (pc # "wait" /\ Len(log) > 0)
        => LET n == retries - 1
               b == log[Len(log)].t
               ub == IF 10000 * 2^n < 4000000 THEN 10000 * 2^n ELSE 4000000
           IN  /\ log[Len(log)].ev = "sleep"
               /\ 0 <= b
               /\ b <= ub
               /\ backoff_bound(n) = ub
               /\ n >= 9 => ub = 4000000
               /\ n < 9 => ub < 4000000
               /\ backoff_bound(n) <= backoff_bound(n + 1)
               /\ n = 0 => (Len(log) = 2 /\ SumSleep(log) = estimated_time + b)
               /\ n > 0 => (Len(log) = 1 /\ SumSleep(log) = b)

C6_Witness ==
    /\ pc # "wait"
    /\ retries - 1 >= 9
    /\ log = <<Sleep(4000000)>>
    /\ estimated_time = 500000

\* C7: a scan operation whose upload is answered 429 ends with
\* RateLimitExceeded, having made no check call and no sleep.
C7_UploadRateLimited ==
    (op \in ScanOps /\ upload_response.status = 429)
        => /\ pc = "done"
           /\ error = RateLimitExceeded
           /\ result = None
           /\ Len(log) = 1
           /\ log[1].ev \notin {"check", "sleep"}

C7_Witness ==
    /\ op = "scan_url"
    /\ upload_response.status = 429
    /\ pc = "done"
    /\ error.type = "RateLimitExceeded"
    /\ log = <<Request("upload_url", "", upload_response)>>

\* C8: a scan operation whose upload is answered with a status outside
\* [200,299] other than 429 ends with InlyseApiError carrying the content of
\* the upload response, having made no check call and no sleep; for a status
\* inside [200,299] the submit step (no check made yet) raises no
\* InlyseApiError.
C8_UploadApiError ==
    op \in ScanOps
        => LET s == upload_response.status
           IN  /\ ((s < 200 \/ s > 299) /\ s # 429)
                      => /\ pc = "done"
                         /\ error.type = "InlyseApiError"
                         /\ error.args = upload_response.content
                         /\ result = None
                         /\ Len(log) = 1
                         /\ log[1].ev \notin {"check", "sleep"}
               /\ (s >= 200 /\ s <= 299 /\ Len(log) = 1)
                      => error.type # "InlyseApiError"

C8_Witness ==
    /\ op = "scan_file"
    /\ upload_response.status = 199
    /\ upload_response.content.body = "b2"
    /\ pc = "done"
    /\ error.type = "InlyseApiError"
    /\ error.args.body = "b2"

\* C9: after an upload answered with identifier X, every check call of the
\* scan operation is made for X, and what the scan returns is the envelope
\* of the check response with status 200, a check made for X.
C9_ChecksUseUploadedId ==
    op \in ScanOps
        => LET X == upload_response.content.id
           IN  /\ \A i \in 1 .. Len(log) : log[i].ev = "check" => log[i].id = X
               /\ (pc = "done" /\ error = NoError)
                      => /\ Polled
                         /\ log[Len(log)].ev = "check"
                         /\ log[Len(log)].id = X
                         /\ log[Len(log)].resp.status = 200
                         /\ result = log[Len(log)].resp

C9_Witness ==
    /\ op = "scan_file"
    /\ upload_response.content.id = "Y"
    /\ pc = "done"
    /\ error = NoError
    /\ Len(Checks) = 2
    /\ Checks[1].id = "Y"
    /\ Checks[2].id = "Y"
    /\ result.status = 200
    /\ result = Checks[2].resp

\* C10: in a scan operation the poll loop runs with estimated_time equal to
\* 0.2 times the EstimatedAnalysisTime of the upload response (five times
\* the wait is the estimate), which is the courtesy wait it sleeps, and with
\* the max_retries the caller gave.
C10_WaitBaseIsFifthOfEstimate ==
    (op \in ScanOps /\ Polled)
        => LET E == upload_response.content.EstimatedAnalysisTime
               f == FirstCheck
           IN  /\ 5 * estimated_time = E
               /\ max_retries = arg_max_retries
               /\ analysis_id = upload_response.content.id
               /\ (f > 0 /\ Len(log) > f) => 5 * log[f + 1].t = E

C10_Witness ==
    /\ op = "scan_owa"
    /\ upload_response.content.EstimatedAnalysisTime = 500000
    /\ estimated_time = 100000
    /\ arg_max_retries = 2
    /\ max_retries = 2
    /\ Len(log) >= 3
    /\ log[3] = Sleep(100000)

\* C11: called with default arguments, a scan operation issues at most 15
\* check calls and a direct get_analysis at most 3; MaxRetriesExceeded is
\* signaled only after exactly that many checks, all answered 202.
C11_DefaultCheckBudget ==
    LET n == Len(Checks)
    IN  /\ op \in ScanOps => n <= 15
        /\ op = "get_analysis" => n <= 3
        /\ error = MaxRetriesExceeded =>
               /\ AllPending(Checks, n)
               /\ op \in ScanOps => n = 15
               /\ op = "get_analysis" => n = 3

\* A default scan that has used its whole budget of 15 checks.
C11_Witness ==
    /\ op \in ScanOps
    /\ pc = "done"
    /\ error = MaxRetriesExceeded
    /\ Len(Checks) = 15

\* The outcomes of a call that has ended.
Outcome_DONE == error = NoError /\ result # None /\ result.status = 200
Outcome_ERROR == error.type = "InlyseApiError" /\ result = None
Outcome_RATE_LIMITED == error = RateLimitExceeded /\ result = None
Outcome_EXHAUSTED == error = MaxRetriesExceeded /\ result = None

\* C12: whatever max_retries is and whatever the checks answer, a call that
\* entered the poll loop ends (every check call returning and every sleep
\* ending); no check numbered above max_retries is issued; and the call ends
\* in exactly one of DONE, ERROR, RATE_LIMITED, EXHAUSTED.
C12_PollLoopTerminates ==
    /\ [](Polled => \A i \in 1 .. Len(Checks) : i <= max_retries)
    /\ [](Polled /\ pc = "done" =>
            Cardinality({o \in {"DONE", "ERROR", "RATE_LIMITED", "EXHAUSTED"} :
                \/ o = "DONE" /\ Outcome_DONE
                \/ o = "ERROR" /\ Outcome_ERROR
                \/ o = "RATE_LIMITED" /\ Outcome_RATE_LIMITED
                \/ o = "EXHAUSTED" /\ Outcome_EXHAUSTED}) = 1)
    /\ (Polled /\ pc \in {"check", "wait"}) ~> (Polled /\ pc = "done")

\* A call that ended DONE on the last check its budget allows.
C12_Witness ==
    /\ Polled
    /\ pc = "done"
    /\ Outcome_DONE
    /\ max_retries = 3
    /\ Len(Checks) = 3

\* C13: a scan operation whose upload is answered with a status in [200,299]
\* has an identifier and an estimated time and is in the poll loop; and a
\* scan operation that has ended has returned an envelope or signaled
\* RateLimitExceeded, InlyseApiError or MaxRetriesExceeded (a transport error
\* being the only other end), whatever the upload status and body were.
C13_ScanEndsInListedOutcome ==
    (op \in ScanOps /\ pc # "idle") =>
        /\ (upload_response.status >= 200 /\ upload_response.status <= 299)
               => /\ Polled
                  /\ analysis_id = upload_response.content.id
        /\ pc = "done" =>
               \/ error = NoError /\ result # None
               \/ error.type \in {"RateLimitExceeded", "InlyseApiError",
                                   "MaxRetriesExceeded", "TransportError"}

\* The sends so far that were GETs answered 429.
Get429(i) == wire[i].method = "GET" /\ wire[i].status = 429

\* How many GETs answered 429 in a row end at send i of the wire.
Streak(i) ==
    LET stops == {j \in 0 .. i : j = 0 \/ ~Get429(j)}
    IN  i - (CHOOSE m \in stops : \A k \in stops : k <= m)

\* The call has ended and its caller has the 429: as RateLimitExceeded, or
\* as the envelope of a directly called endpoint.
Surfaced429 ==
    /\ pc = "done"
    /\ \/ error = RateLimitExceeded /\ result = None
       \/ error = NoError /\ result.status = 429

\* C14 (as stated): a request answered 429 is not sent again: a GET answered
\* 429 is the last request of its operation and the 429 is surfaced.
C14_No429Resend ==
    \A i \in 1 .. Len(wire) :
        Get429(i) => (i = Len(wire) /\ Surfaced429)

\* C14 (amended): the client surfaces a 429 it receives at once and never
\* repeats the operation, but the transport below it sends a GET answered
\* 429 again, up to 3 times, before it hands the 429 on; a request that is
\* not a GET is never sent again after a 429.
C14_429ResentByTransportOnly ==
    \A i \in 1 .. Len(wire) :
        /\ (Get429(i) /\ Streak(i) <= 3)
               => /\ i < Len(wire)
                  /\ wire[i + 1].method = "GET"
                  /\ wire[i + 1].target = wire[i].target
        /\ (Get429(i) /\ Streak(i) > 3)
               => /\ Streak(i) = 4
                  /\ i = Len(wire)
                  /\ Surfaced429
        /\ (wire[i].method # "GET" /\ wire[i].status = 429)
               => (i = Len(wire) /\ Surfaced429)

\* A stats request answered 429 four times: sent again three times, then the
\* 429 comes back as the envelope.
C14_Witness ==
    /\ op = "stats"
    /\ pc = "done"
    /\ Len(wire) = 4
    /\ \A i \in 1 .. 4 : Get429(i)
    /\ result.status = 429

\* The request the call made last, when the last thing it did was a request.
LastRequest == log[Len(log)]

\* C15 (as stated): no operation signals InlyseApiError for a response whose
\* status is in [200,299].
C15_NoApiErrorFor2xx ==
    error.type = "InlyseApiError" =>
        (LastRequest.resp.status < 200 \/ LastRequest.resp.status > 299)

\* C15 (amended): InlyseApiError is signaled exactly for: a check answered
\* with a status other than 200, 202 and 429 (other 2xx statuses included);
\* a disarm answered with a status other than 200 and 429 (other 2xx
\* statuses included); an upload answered with a status outside [200,299]
\* other than 429.  It carries the content of that response.
C15_ApiErrorStatuses ==
    (pc = "done" /\ op \in ScanOps \cup {"get_analysis", "disarm"}
        /\ Len(log) > 0 /\ LastRequest.ev # "sleep") =>
        LET st == LastRequest.resp.status
            ev == LastRequest.ev
            rejected ==
                \/ ev = "check" /\ st \notin {200, 202, 429}
                \/ ev = "disarm_file" /\ st \notin {200, 429}
                \/ /\ ev \in {"upload_file", "upload_url", "upload_owa"}
                   /\ (st < 200 \/ st > 299)
                   /\ st # 429
        IN  /\ error.type = "InlyseApiError" <=> rejected
            /\ rejected => error = InlyseApiError(LastRequest.resp.content)

\* A disarm answered 201 has ended with InlyseApiError.
C15_Witness ==
    /\ op = "disarm"
    /\ pc = "done"
    /\ LastRequest.resp.status = 201
    /\ error.type = "InlyseApiError"

\* The names of the directly callable endpoint methods.
BindingOps == {b.name : b \in Bindings}

\* C16 (as stated): every operation whose response has status 429 signals
\* RateLimitExceeded and returns no envelope.
C16_Every429RateLimited ==
    (pc = "done" /\ Len(log) > 0 /\ LastRequest.ev # "sleep"
        /\ LastRequest.resp.status = 429)
        => (error = RateLimitExceeded /\ result = None)

\* C16 (amended): disarm, get_analysis and the scan operations signal
\* RateLimitExceeded when their response has status 429; a directly called
\* endpoint method (version, ping, stats, download, disarm_analysis,
\* upload_*, disarm_file, list_analyses, check) returns the envelope with
\* status 429 and signals nothing.
C16_RateLimitedOrEnvelope ==
    (pc = "done" /\ Len(log) > 0 /\ LastRequest.ev # "sleep"
        /\ LastRequest.resp.status = 429) =>
        /\ op \in ScanOps \cup {"get_analysis", "disarm"}
               => (error = RateLimitExceeded /\ result = None)
        /\ op \in BindingOps
               => (error = NoError /\ result = LastRequest.resp)

\* A disarm answered 429 has ended with RateLimitExceeded.
C16_Witness ==
    /\ op = "disarm"
    /\ pc = "done"
    /\ LastRequest.resp.status = 429
    /\ error = RateLimitExceeded

\* C17: every operation on the client succeeds, after close() by way of a
\* new session, and in every reachable state no request has been sent
\* through a session that was closed when the request was sent.
C17_NoSendThroughClosedSession ==
    \A r \in sent :
        /\ r.error = ""
        /\ r.session # 0
        /\ ~r.closed

\* C18: once a with-block has been left, normally or by an exception, the
\* session the client held when the block was left is closed, the client
\* held no session when __exit__ returned, and the exception, if there was
\* one, has gone on to the caller of the block.
C18_ExitClosesHeldSession ==
    block = "exited" =>
        /\ exit_with.held # 0 => sessions[exit_with.held] = "closed"
        /\ exit_with.api_at_return = 0
        /\ exit_with.propagated = exit_with.raised

\* C19: as long as close() has not been called, the worker threads sharing a
\* client that started unopened have created at most one session between
\* them, and every request any of them sent went through that session.
C19_OneSharedSession ==
    (closes = 0 /\ block \in {"none", "inside"}) =>
        /\ Len(sessions) <= 1
        /\ \A r \in sent : r.session = 1

\* The keys of a map.
Keys(map) == {e.key : e \in map}

\* C20: a batch that was not declined at the quota prompt is never ended by
\* the exception of an asset and never stuck: while it runs a next step is
\* possible, and when it is done every asset has been handed to a thread,
\* a result was collected for each, and the printed maps report each asset:
\* under success when its call returned a response, under failures when its
\* call raised an exception.
C20_EveryAssetProcessedAndReported ==
    /\ bpc # "raised"
    /\ bpc \in {"start", "collect"} => ENABLED NextBatch
    /\ bpc = "done" =>
           /\ output.printed
           /\ task_next = Len(assets) + 1
           /\ collected = Len(assets)
           /\ \A w \in Workers : running[w] = 0
           /\ \A i \in 1 .. Len(assets) :
                  IF outcomes[i] = "response"
                  THEN assets[i] \in Keys(output.success)
                  ELSE assets[i] \in Keys(output.failures)

\* A batch of two assets is done: the call for the first raised an
\* exception, the second is reported under success all the same.
C20_Witness ==
    /\ bpc = "done"
    /\ Len(assets) = 2
    /\ assets[1] # assets[2]
    /\ outcomes[1] = "ConnectionError"
    /\ outcomes[2] = "response"
    /\ assets[1] \in Keys(output.failures)
    /\ assets[2] \in Keys(output.success)


---------------------------------------------------------------------------
\* No asset was handed to a thread, no client call was made, nothing was
\* collected or printed.
NothingStarted ==
    /\ task_next = 1
    /\ \A w \in Workers : running[w] = 0
    /\ results = <<>>
    /\ collected = 0
    /\ scans = EmptyScans
    /\ output = NoOutput

\* C21: before a batch is submitted the confirmation is asked for exactly
\* when remaining < 4 * (number of assets); declined, no thread is handed an
\* asset and no client call (upload, check, disarm) is made.
C21_ConfirmationIffShortQuota ==
    /\ bpc \in {"collect", "aborted", "raised", "done"} =>
          (prompt # "unasked" <=> remaining < 4 * Len(assets))
    /\ bpc \in {"ping", "stats", "start", "exit1"} => prompt = "unasked"
    /\ prompt = "declined" => bpc = "aborted" /\ NothingStarted
    /\ bpc = "aborted" => prompt = "declined"

\* C21 witness: a batch of two assets with seven requests remaining was
\* declined; a batch of one asset with four remaining needs no confirmation.
C21_Witness ==
    /\ prompt = "declined"
    /\ Len(assets) = 2
    /\ remaining = 7

\* main: the pre-flight check failed: stats answered 401 or 429 or reported
\* nothing remaining, or ping or stats ended with an exception (a stats
\* envelope without snapshot raises TypeError in main).
PreflightFailed ==
    \/ preflight.ping \notin {"", "response"}
    \/ preflight.stats \notin {"", "response"}
    \/ /\ preflight.stats = "response"
       /\ \/ preflight.status \in {401, 429}
          \/ preflight.rate_limit \in {-1, 0}

\* C22: when the pre-flight check fails the invocation exits with code 1 and
\* no subcommand body runs; when it passes, the subcommand gets the requests
\* remaining that stats reported.
C22_PreflightFailureExits ==
    /\ PreflightFailed =>
          /\ bpc = "exit1"
          /\ preflight.message # ""
          /\ prompt = "unasked"
          /\ NothingStarted
    /\ bpc = "exit1" => PreflightFailed
    /\ bpc \notin {"ping", "stats", "exit1"} =>
          /\ preflight.message = ""
          /\ remaining = preflight.rate_limit

\* C22 witness: stats answered 401 with requests remaining for the two assets
\* given, after ping was answered with 500.
C22_Witness ==
    /\ bpc = "exit1"
    /\ preflight.ping_status = 500
    /\ preflight.status = 401
    /\ preflight.rate_limit = 100
    /\ Len(assets) = 2

---------------------------------------------------------------------------
\* The binding called sent its request.
RequestSent == ep.pc \notin {"idle", "usage"}

\* The wrapper returned an envelope.
EnvelopeReturned == RequestSent /\ ep.raised = ""

\* C23: for every filter value not in {all, finished, unfinished, error}
\* list_analyses sends the query parameter filter=all; for every value in
\* that set the parameter sent is the value given.
C23_UnknownFilterSentAsAll ==
    RequestSent /\ ep.binding = "list_analyses" =>
        /\ ep.path = "/api/analysis"
        /\ ep.arg \in {"all", "finished", "unfinished", "error"} =>
               ep.params = "filter=" \o ep.arg
        /\ ep.arg \notin {"all", "finished", "unfinished", "error"} =>
               ep.params = "filter=all"

\* C23 witness: list_analyses("done") sent filter=all.
C23_Witness ==
    /\ RequestSent
    /\ ep.via = "library"
    /\ ep.binding = "list_analyses"
    /\ ep.arg = "done"
    /\ ep.params = "filter=all"

\* C24 as stated: a filter value that differs from a valid filter only in
\* letter case is sent as that valid filter, not replaced by "all".
C24_FilterCaseInsensitive ==
    RequestSent /\ ep.binding = "list_analyses"
    /\ ep.arg \in {"Finished", "ALL", "Error"} =>
        ep.params = "filter=" \o lower(ep.arg)

\* C24, amended: the filter is case-insensitive on the command line, where
\* the value given is matched against the choices without regard to letter
\* case and handed on in lower case; list_analyses itself compares exactly
\* and replaces a value in other letter case by "all".
C24_CaseInsensitiveOnCommandLineOnly ==
    /\ ep.via = "cli" /\ RequestSent =>
          /\ lower(ep.given) \in {"all", "finished", "unfinished", "error"}
          /\ ep.params = "filter=" \o lower(ep.given)
    /\ ep.via = "cli" /\ ep.pc = "usage" =>
          /\ lower(ep.given) \notin {"all", "finished", "unfinished", "error"}
          /\ ep.path = ""
    /\ ep.via = "library" /\ ep.binding = "list_analyses"
       /\ ep.arg \in {"Finished", "ALL", "Error"} =>
          ep.params = "filter=all"

\* C24 witness: `list --filter Finished` sent filter=finished.
C24_Witness ==
    /\ ep.via = "cli"
    /\ ep.given = "Finished"
    /\ ep.params = "filter=finished"

\* C25: for check, download and disarm_analysis called with identifier X the
\* endpoint field of the envelope returned is the path that was requested,
\* the placeholder {id} replaced by X.
C25_EndpointNamesRequestedPath ==
    EnvelopeReturned /\ ep.binding \in {"check", "download", "disarm_analysis"} =>
        ep.envelope.endpoint = ep.path

C27_ContentByContentType ==
    EnvelopeReturned =>
        /\ ep.envelope.status = ep.raw.status
        /\ ep.raw.content_type \in {"application/json", "application/json; charset=UTF-8"} =>
              /\ ep.envelope.content_type.mime = "application/json"
              /\ ep.raw.body = "{\"ID\": \"X\"}" =>
                     ep.envelope.content = [type |-> "dict", of |-> "ID=X"]
              /\ ep.raw.body = "[\"X\", \"Y\"]" =>
                     ep.envelope.content = [type |-> "list", of |-> "X,Y"]
              /\ ep.envelope.content.type \in {"dict", "list"}
        /\ ep.raw.content_type \notin {"application/json", "application/json; charset=UTF-8"} =>
              ep.envelope.content = [type |-> "bytes", of |-> ep.raw.body]

\* C27 witness: a payload that is JSON text came as application/pdf with
\* status 404 and was handed on as bytes.
C27_Witness ==
    /\ EnvelopeReturned
    /\ ep.raw.content_type = "application/pdf"
    /\ ep.raw.body = "{\"ID\": \"X\"}"
    /\ ep.raw.status = 404
    /\ ep.envelope.status = 404
    /\ ep.envelope.content.type = "bytes"

---------------------------------------------------------------------------
\* C28: within one poll loop the checks are strictly sequential: a check is
\* made only after the check before it was answered 202 and the sleep that
\* follows that answer is over; no check is made while another is unanswered.
C28_ChecksStrictlySequential ==
    /\ \A i \in 1 .. Len(log), j \in 1 .. Len(log) :
          (i < j /\ log[i].ev = "check" /\ log[j].ev = "check") =>
              /\ log[i].resp.status = 202
              /\ log[j - 1].ev = "sleep"
    /\ (pc = "check" /\ Len(Checks) > 0) =>
          /\ Checks[Len(Checks)].resp.status = 202
          /\ log[Len(log)].ev = "sleep"
    /\ pc = "wait" =>
          /\ log[Len(log)].ev = "check"
          /\ log[Len(log)].resp.status = 202
          /\ response = log[Len(log)].resp

\* C28 witness: three checks, the third answered 200.
C28_Witness ==
    /\ pc = "done"
    /\ Len(Checks) = 3
    /\ Checks[3].resp.status = 200
    /\ error = NoError

\* Send i of the wire is a GET answered 429 or 503.
GetAgain(i) == wire[i].method = "GET" /\ wire[i].status \in {429, 503}

\* How many GETs answered 429 or 503 in a row end at send i of the wire.
StreakAgain(i) ==
    LET stops == {j \in 0 .. i : j = 0 \/ ~GetAgain(j)}
    IN  i - (CHOOSE m \in stops : \A k \in stops : k <= m)

\* The requests the call has made, as its code sees them.
Requests == SelectSeq(log, LAMBDA e : e.ev # "sleep")

\* C29: one GET is sent at most 4 times, the first send and 3 re-sends; it
\* is sent again only after an answer 429 or 503; when the re-sends are used
\* up the last answer is handed to the caller as the response of the request,
\* with status 429 or 503, and nothing is raised by the transport.
C29_GetSentAtMostFourTimes ==
    /\ \A i \in 1 .. Len(wire) :
          /\ GetAgain(i) => StreakAgain(i) <= 4
          /\ (GetAgain(i) /\ StreakAgain(i) <= 3) =>
                 /\ i < Len(wire)
                 /\ wire[i + 1].method = "GET"
                 /\ wire[i + 1].target = wire[i].target
          /\ (GetAgain(i) /\ StreakAgain(i) = 4) =>
                 /\ i = Len(wire)
                 /\ LastRequest.ev # "sleep"
                 /\ LastRequest.resp.status = wire[i].status
    /\ Len(wire) = Len(Requests)
                    + Cardinality({i \in 1 .. Len(wire) : GetAgain(i) /\ StreakAgain(i) <= 3})

\* C29 witness: a directly called check answered 503 four times returns the
\* envelope with status 503.
C29_Witness ==
    /\ op = "check"
    /\ pc = "done"
    /\ Len(wire) = 4
    /\ \A i \in 1 .. 4 : wire[i].status = 503
    /\ result.status = 503
    /\ error = NoError

\* The sends of the wire that are POSTs.
Posts == {i \in 1 .. Len(wire) : wire[i].method = "POST"}

\* C30: a POST is never sent again: a scan sends exactly one upload request
\* and a disarm exactly one disarm-file request, whatever status it is
\* answered with; the answer to the upload is there before the first check.
C30_PostSentOnce ==
    /\ (pc # "idle" /\ op \in ScanOps \cup {"disarm"}) =>
          /\ Posts = {1}
          /\ wire[1].target = (IF op = "disarm" THEN "/api/files/disarm"
                                ELSE upload_response.endpoint)
          /\ log[1].ev # "check"
          /\ log[1].resp.status = wire[1].status
          /\ FirstCheck # 1
    /\ (pc # "idle" /\ op \in ScanOps) =>
          /\ log[1].resp = upload_response
          /\ \A i \in 2 .. Len(log) : log[i].ev \in {"check", "sleep"}
    /\ \A i \in Posts : i = Len(wire) \/ wire[i + 1].method = "GET"

\* C30 witness: an upload answered 503 was sent once and ended the scan.
C30_Witness ==
    /\ op \in ScanOps
    /\ pc = "done"
    /\ Len(wire) = 1
    /\ wire[1].method = "POST"
    /\ wire[1].status = 503
    /\ error.type = "InlyseApiError"

---------------------------------------------------------------------------
\* C31: after close() has returned and no operation is in flight, a client
\* that holds no session has left none of the sessions its property api ever
\* created open, also when threads raced on the first access.
C31_CloseReleasesEverySession ==
    (/\ closes > 0 \/ block = "exited"
     /\ opc = "idle"
     /\ self_api = 0
     /\ \A w \in Workers : wpc[w] = "idle") =>
        \A i \in 1 .. Len(sessions) : sessions[i] = "closed"

---------------------------------------------------------------------------
\* The assets of the batch, as a set.
AssetSet == {assets[i] : i \in 1 .. Len(assets)}

\* No asset is given twice.
DistinctAssets == \A i, j \in 1 .. Len(assets) : assets[i] = assets[j] => i = j

\* A map has one entry for each of its keys.
IsMap(map) == \A e1, e2 \in map : e1.key = e2.key => e1 = e2

\* C32 as stated: after a batch, for every list of assets, repetitions
\* allowed, each asset is a key of exactly one of the maps success and
\* failures, and the two maps have as many keys together as assets were given.
C32_KeysPartitionAssets ==
    bpc = "done" =>
        /\ \A a \in AssetSet :
               (a \in Keys(output.success)) # (a \in Keys(output.failures))
        /\ Cardinality(Keys(output.success)) + Cardinality(Keys(output.failures))
               = Len(assets)

\* C32, amended: after a batch the keys of the two maps together are the
\* assets given, each map with one entry for a key; for assets that are
\* pairwise distinct each is a key of exactly one map and the maps have as
\* many keys together as there are assets; an asset given more than once has
\* one key in a map, and is a key of both maps when its calls ended
\* differently.
C32_KeysCoverAssets ==
    bpc = "done" =>
        /\ Keys(output.success) \cup Keys(output.failures) = AssetSet
        /\ IsMap(output.success)
        /\ IsMap(output.failures)
        /\ DistinctAssets =>
               /\ Keys(output.success) \cap Keys(output.failures) = {}
               /\ Cardinality(Keys(output.success))
                      + Cardinality(Keys(output.failures)) = Len(assets)
        /\ \A a \in Keys(output.success) \cap Keys(output.failures) :
               \E i, j \in 1 .. Len(assets) :
                   /\ i # j
                   /\ assets[i] = a /\ assets[j] = a
                   /\ outcomes[i] = "response" /\ outcomes[j] # "response"
        /\ Cardinality(Keys(output.success)) + Cardinality(Keys(output.failures))
               >= Cardinality(AssetSet)

\* C32 witness: the asset f1 was given twice, one call returned a response
\* and the other raised; f1 is a key of both maps.
C32_Witness ==
    /\ bpc = "done"
    /\ assets = <<"f1", "f1">>
    /\ outcomes = <<"response", "ConnectionError">>
    /\ "f1" \in Keys(output.success)
    /\ "f1" \in Keys(output.failures)

---------------------------------------------------------------------------
\* The entries the assets and the outcomes of their calls determine: the
\* content of the response for a call that returned, the text of the
\* exception for one that raised.
ExpectedSuccess ==
    {[key |-> assets[i], value |-> "content of " \o assets[i]] :
         i \in {n \in 1 .. Len(assets) : outcomes[n] = "response"}}

ExpectedFailures ==
    {[key |-> assets[i], value |-> outcomes[i]] :
         i \in {n \in 1 .. Len(assets) : outcomes[n] # "response"}}

\* C33: for pairwise distinct assets and given outcomes of their calls, the
\* maps success and failures of the finished batch are the same whatever the
\* order in which the threads took and completed the assets: they are the
\* maps the assets and outcomes determine, and while the batch runs the
\* entries collected so far are among them.
C33_MapsIndependentOfCompletionOrder ==
    DistinctAssets =>
        /\ scans.success \subseteq ExpectedSuccess
        /\ scans.failures \subseteq ExpectedFailures
        /\ bpc = "done" =>
               /\ output.success = ExpectedSuccess
               /\ output.failures = ExpectedFailures
               /\ scans.success = ExpectedSuccess
               /\ scans.failures = ExpectedFailures

\* C33 witness: of two distinct assets the second completed first, and its
\* result was collected before the first asset's.
C33_Witness ==
    /\ DistinctAssets
    /\ Len(assets) = 2
    /\ bpc = "collect"
    /\ collected = 1
    /\ Keys(scans.success) \cup Keys(scans.failures) = {assets[2]}
    /\ Len(results) = 1
    /\ results[1].asset = assets[1]

---------------------------------------------------------------------------
\* How many of the first p entries of the log are checks.
ChecksUpTo(p) == Cardinality({q \in 1 .. p : log[q].ev = "check"})

\* The sleeps of the log.
Sleeps == SelectSeq(log, LAMBDA e : e.ev = "sleep")

\* The checks of the log answered 202 whose wait is over.
Waited == Cardinality({p \in 1 .. Len(log) :
                          /\ log[p].ev = "check"
                          /\ log[p].resp.status = 202
                          /\ (p < Len(log) \/ pc # "wait")})

\* C34: in get_analysis _wait is called once after each answer 202 and after
\* no other answer; the call after the j-th 202, j from 0, has attempt index
\* j: after the first 202 the courtesy sleep of estimated_time and a backoff
\* sleep of at most min(cap, base), after the j-th a single backoff sleep of
\* at most min(cap, base * 2^j); so the courtesy sleep happens at most once
\* and only when the first check was answered 202.  The last 202 of a budget
\* used up is followed by its sleep too, before MaxRetriesExceeded.
C34_WaitOncePerPendingAnswer ==
    /\ \A p \in 1 .. Len(log) :
          log[p].ev = "check" =>
              IF log[p].resp.status # 202
              THEN p = Len(log)
              ELSE (p < Len(log) \/ pc # "wait") =>
                   IF ChecksUpTo(p) = 1
                   THEN /\ Len(log) >= p + 2
                        /\ log[p + 1] = Sleep(estimated_time)
                        /\ log[p + 2].ev = "sleep"
                        /\ log[p + 2].t <= Min(4000000, 10000)
                        /\ env.rng = {JitterSteps} => log[p + 2].t = 10000
                        /\ Len(log) > p + 2 => log[p + 3].ev = "check"
                   ELSE /\ Len(log) >= p + 1
                        /\ log[p + 1].ev = "sleep"
                        /\ log[p + 1].t <= Min(4000000, 10000 * 2^(ChecksUpTo(p) - 1))
                        /\ env.rng = {JitterSteps} =>
                               log[p + 1].t = Min(4000000, 10000 * 2^(ChecksUpTo(p) - 1))
                        /\ Len(log) > p + 1 => log[p + 2].ev = "check"
    /\ Len(Sleeps) = IF Waited = 0 THEN 0 ELSE Waited + 1
    /\ (error = MaxRetriesExceeded /\ Len(Checks) > 0) =>
          /\ Checks[Len(Checks)].resp.status = 202
          /\ log[Len(log)].ev = "sleep"
          /\ Waited = Len(Checks)

\* C34 witness: three checks answered 202 with a budget of three: the
\* courtesy sleep and three backoff sleeps, the last one before
\* MaxRetriesExceeded.
C34_Witness ==
    /\ op = "get_analysis"
    /\ error = MaxRetriesExceeded
    /\ estimated_time = 500000
    /\ Len(Checks) = 3
    /\ Len(Sleeps) = 4
    /\ Sleeps[1].t = 500000
    /\ Sleeps[4].t = 40000
    /\ log[Len(log)] = Sleeps[4]

---------------------------------------------------------------------------
\* C35: with max_retries <= 0 get_analysis signals MaxRetriesExceeded
\* without a check and without a sleep, whatever the service would answer; a
\* scan operation with max_retries <= 0 still sends its upload, once, and
\* then, the upload accepted, signals MaxRetriesExceeded without a check.
C35_NoBudgetNoCheck ==
    (pc # "idle" /\ arg_max_retries <= 0) =>
        /\ op = "get_analysis" =>
              /\ pc = "done"
              /\ error = MaxRetriesExceeded
              /\ result = None
              /\ log = <<>>
              /\ wire = <<>>
        /\ op \in ScanOps =>
              /\ pc = "done"
              /\ Len(log) = 1
              /\ log[1].ev \in {"upload_file", "upload_url", "upload_owa"}
              /\ Len(wire) = 1
              /\ wire[1].method = "POST"
              /\ result = None
              /\ Polled <=> error = MaxRetriesExceeded

\* C35 witness: scan_url with max_retries 0, the upload answered 200 with
\* both keys: one POST, no check, MaxRetriesExceeded.
C35_Witness ==
    /\ op = "scan_url"
    /\ arg_max_retries = 0
    /\ pc = "done"
    /\ upload_response.status = 200
    /\ Polled
    /\ Len(wire) = 1
    /\ error = MaxRetriesExceeded

---------------------------------------------------------------------------
\* C36: in a batch the shared client is closed only after the results of all
\* assets were collected: when close() is called every thread is idle and
\* every asset done, every request went through a session that was open, and
\* after the close the client holds no session: none is created again.
C36_ClosedAfterAllCollected ==
    /\ \A r \in sent : r.error = "" /\ r.session # 0 /\ ~r.closed
    /\ (opc # "idle" \/ block \in {"exiting", "exited"}) =>
          /\ collected = Len(assets)
          /\ task_next = Len(assets) + 1
          /\ results = <<>>
          /\ \A w \in Workers : running[w] = 0 /\ wpc[w] = "idle"
    /\ block = "exited" =>
          /\ self_api = 0
          /\ exit_with.held # 0 => sessions[exit_with.held] = "closed"
          /\ Len(sessions) > 0 => exit_with.held = Len(sessions)

\* C36 witness: a batch of two assets is done, requests were sent by both
\* threads, and the client was closed after them.
C36_Witness ==
    /\ bpc = "done"
    /\ block = "exited"
    /\ Len(assets) = 2
    /\ \A w \in Workers : \E r \in sent : r.worker = w
    /\ sessions[Len(sessions)] = "closed"

---------------------------------------------------------------------------
\* C37: disarm(filename, content) returns the envelope exactly when the
\* disarm-file request was answered 200; answered 429 it signals
\* RateLimitExceeded, and answered with any other status, other 2xx statuses
\* among them, InlyseApiError with the content of the response.
C37_DisarmReturnsOn200Only ==
    (op = "disarm" /\ pc # "idle") =>
        /\ pc = "done"
        /\ Len(log) = 1
        /\ log[1].ev = "disarm_file"
        /\ log[1].resp.status = wire[Len(wire)].status
        /\ result # None <=> log[1].resp.status = 200
        /\ log[1].resp.status = 200 => result = log[1].resp /\ error = NoError
        /\ log[1].resp.status = 429 => error = RateLimitExceeded
        /\ log[1].resp.status \notin {200, 429} =>
               error = InlyseApiError(log[1].resp.content)
        /\ error # NoError => result = None

\* C37 witness: a disarm answered 201 ended with InlyseApiError carrying the
\* body of that answer, and returned nothing.
C37_Witness ==
    /\ op = "disarm"
    /\ pc = "done"
    /\ Len(wire) = 1
    /\ wire[1].status = 201
    /\ result = None
    /\ error.type = "InlyseApiError"
    /\ error.args = log[1].resp.content
    /\ log[1].resp.content.body = "b2"

---------------------------------------------------------------------------
\* The body of a batch subcommand runs or has run.
BodyRuns == bpc \in {"start", "collect", "aborted", "raised", "done"}

---------------------------------------------------------------------------
\* C39: in the command disarm any two distinct files disarmed in one
\* invocation are written to two distinct destinations, and every
\* destination reported under success holds the document of its own asset.
C39_DistinctDestinations ==
    bpc = "printed" =>
        /\ \A d1, d2 \in disarmed.success :
               d1.key # d2.key => d1.value # d2.value
        /\ \A d \in disarmed.success :
               [key |-> d.value, value |-> "content of " \o d.key] \in disarmed.files

=============================================================================
